---- MODULE Spec2Model ----
(***************************************************************************)
(* Band-matrix layout converters of gonum/netlib.                          *)
(*                                                                         *)
(*   lapack/netlib            convDpbToLapacke / convDpbToGonum            *)
(*                            (called by the tests and the wrappers under  *)
(*                            the names bandTriToLapacke / bandTriToGonum) *)
(*   lapack/lapacke/internal/conv   DpbToColMajor / DpbToRowMajor          *)
(*                                                                         *)
(* A slice is a function on 0..len-1.  An index outside the slice is a Go  *)
(* run-time panic: the conversion stops at that copy, the copies made      *)
(* before it stay in the destination.                                      *)
(***************************************************************************)
EXTENDS Integers, Sequences, FiniteSets, TLC

(* ------------------------------ bounds --------------------------------- *)
MaxN == 4
MaxKd == 5
MaxExtra == 1
MaxCalls == 2
WrapMaxN == 3
WrapMaxKd == 2
PivMaxN == 3
ConcMaxN == 2
ConcMaxKd == 1
IdxMaxN == 2
\* int32 is modelled with this many bits (TLC's own integers end at 2^31-1);
\* int is wider and never wraps on the values used.
Int32Bits == 8

(* Value the tests pre-fill a destination with (got[i] = -1). *)
Sentinel == -1

VARIABLES family, uplo, n, kd, lda, ldb, fill, a, b, a0, b0, prevA, prevB,
          hist, trace, prevTrace, pc, wrap, piv, conc, idx

params == <<family, uplo, n, kd, lda, ldb, fill, a0, b0>>
vars == <<family, uplo, n, kd, lda, ldb, fill, a, b, a0, b0, prevA, prevB,
          hist, trace, prevTrace, pc, wrap, piv, conc, idx>>

\* The value of a part of the state no call is using.
Idle == [pc |-> "idle"]

(* ----------------------------- helpers --------------------------------- *)
\* lapack/lapacke/internal/conv: func min(a, b int) int
min(x, y) == IF x < y THEN x ELSE y

\* lapack/lapacke/internal/conv: func max(a, b int) int
max(x, y) == IF x > y THEN x ELSE y

\* lapack/netlib: func min(m, n int) int
netlibMin(x, y) == IF x < y THEN x ELSE y

\* lapack/netlib: func max(m, n int) int
netlibMax(x, y) == IF x < y THEN y ELSE x

\* The values a Go loop `for x := lo; x < hi; x++` visits, in order.
ForLoop(lo, hi) == [k \in 1..(hi - lo) |-> lo + k - 1]

\* Concatenation of a sequence of sequences, in order (the nesting of
\* an inner loop in an outer loop).
RECURSIVE Flatten(_)
Flatten(ss) == IF ss = <<>> THEN <<>> ELSE Head(ss) \o Flatten(Tail(ss))

\* Length of a slice.
SliceLen(s) == Cardinality(DOMAIN s)

(* ------------------------ the copy statement --------------------------- *)
\* One planned copy of a conversion: the full-matrix element (i, j), the
\* source offset read and the destination offset written.
Copy(i, j, s, d) == [i |-> i, j |-> j, src |-> s, dst |-> d]

\* A mutation of AssignElem: the assignment written the wrong way round.
AssignElemReversed(src, dst, c) == [src |-> [src EXCEPT ![c.src] = dst[c.dst]], dst |-> dst]

\* The statement dst[c.dst] = src[c.src] on two in-range offsets.
\* A mutation of AssignElem: the element is added to what the destination
\* slot holds.
AssignElemAccumulate(src, dst, c) == [src |-> src, dst |-> [dst EXCEPT ![c.dst] = @ + src[c.src]]]

AssignElem(src, dst, c) == [src |-> src, dst |-> [dst EXCEPT ![c.dst] = src[c.src]]]

\* The copies of one call in loop order.  An offset outside either slice
\* panics at that statement: nothing is written by it and no later
\* statement runs.  `trace` is the copies attempted, the faulting one last.
RECURSIVE RunCopies(_, _, _, _)
RunCopies(src, dst, copies, k) ==
    IF k > Len(copies)
    THEN [src |-> src, dst |-> dst, trace |-> copies, panicked |-> FALSE]
    ELSE LET c == copies[k] IN
         IF c.src \notin DOMAIN src \/ c.dst \notin DOMAIN dst
         THEN [src |-> src, dst |-> dst, trace |-> SubSeq(copies, 1, k), panicked |-> TRUE]
         ELSE LET r == AssignElem(src, dst, c) IN RunCopies(r.src, r.dst, copies, k + 1)

(* --------------------- lapack/netlib converters ------------------------ *)
\* A mutation of convDpbToLapackeCopies: the destination column taken to be
\* the row index i instead of j.
convDpbToLapackeCopiesRowForCol(ul, nn, k, ldA, ldB) ==
    IF ul = "U"
    THEN Flatten([r \in 1..nn |->
            LET i == r - 1 IN
            [q \in DOMAIN ForLoop(0, netlibMin(nn - i, k + 1)) |->
                LET jb == ForLoop(0, netlibMin(nn - i, k + 1))[q]
                IN Copy(i, i + jb, i * ldA + jb, (k - jb) * ldB + i)]])
    ELSE Flatten([r \in 1..nn |->
            LET i == r - 1 IN
            [q \in DOMAIN ForLoop(netlibMax(0, k - i), k + 1) |->
                LET jb == ForLoop(netlibMax(0, k - i), k + 1)[q]
                IN Copy(i, i - k + jb, i * ldA + jb, (k - jb) * ldB + i)]])

\* A mutation of convDpbToLapackeCopies: the upper inner loop runs to kd+1
\* without the min(n-i, kd+1) clip.
convDpbToLapackeCopiesUnclipped(ul, nn, k, ldA, ldB) ==
    IF ul = "U"
    THEN Flatten([r \in 1..nn |->
            LET i == r - 1 IN
            [q \in DOMAIN ForLoop(0, k + 1) |->
                LET jb == ForLoop(0, k + 1)[q]
                IN Copy(i, i + jb, i * ldA + jb, (k - jb) * ldB + i + jb)]])
    ELSE Flatten([r \in 1..nn |->
            LET i == r - 1 IN
            [q \in DOMAIN ForLoop(netlibMax(0, k - i), k + 1) |->
                LET jb == ForLoop(netlibMax(0, k - i), k + 1)[q]
                IN Copy(i, i - k + jb, i * ldA + jb, (k - jb) * ldB + i - k + jb)]])

\* A mutation of convDpbToLapackeCopies: the destination row scaled by the
\* source stride lda instead of ldb.
convDpbToLapackeCopiesStrideSlip(ul, nn, k, ldA, ldB) ==
    IF ul = "U"
    THEN Flatten([r \in 1..nn |->
            LET i == r - 1 IN
            [q \in DOMAIN ForLoop(0, netlibMin(nn - i, k + 1)) |->
                LET jb == ForLoop(0, netlibMin(nn - i, k + 1))[q]
                IN Copy(i, i + jb, i * ldA + jb, (k - jb) * ldA + i + jb)]])
    ELSE Flatten([r \in 1..nn |->
            LET i == r - 1 IN
            [q \in DOMAIN ForLoop(netlibMax(0, k - i), k + 1) |->
                LET jb == ForLoop(netlibMax(0, k - i), k + 1)[q]
                IN Copy(i, i - k + jb, i * ldA + jb, (k - jb) * ldA + i - k + jb)]])

\* The statements b[(kd-jb)*ldb+j] = a[i*lda+jb] convDpbToLapacke executes,
\* in loop order.
convDpbToLapackeCopies(ul, nn, k, ldA, ldB) ==
    IF ul = "U"
    THEN Flatten([r \in 1..nn |->
            LET i == r - 1 IN
            [q \in DOMAIN ForLoop(0, netlibMin(nn - i, k + 1)) |->
                LET jb == ForLoop(0, netlibMin(nn - i, k + 1))[q]
                    j == i + jb
                IN Copy(i, j, i * ldA + jb, (k - jb) * ldB + j)]])
    ELSE Flatten([r \in 1..nn |->
            LET i == r - 1 IN
            [q \in DOMAIN ForLoop(netlibMax(0, k - i), k + 1) |->
                LET jb == ForLoop(netlibMax(0, k - i), k + 1)[q]
                    j == i - k + jb
                IN Copy(i, j, i * ldA + jb, (k - jb) * ldB + j)]])

\* func convDpbToLapacke(uplo, n, kd, a, lda, b, ldb): a is the client
\* (Gonum) form, b the LAPACKE row-major form.
convDpbToLapacke(ul, nn, k, bufA, ldA, bufB, ldB) ==
    RunCopies(bufA, bufB, convDpbToLapackeCopies(ul, nn, k, ldA, ldB), 1)

\* A mutation of convDpbToGonumCopies: the client offset written is ib
\* instead of kd-ib.
convDpbToGonumCopiesWrongSlot(ul, nn, k, ldA, ldB) ==
    IF ul = "U"
    THEN Flatten([r \in 1..nn |->
            LET j == r - 1 IN
            [q \in DOMAIN ForLoop(netlibMax(0, k - j), k + 1) |->
                LET ib == ForLoop(netlibMax(0, k - j), k + 1)[q]
                    i == j - k + ib
                IN Copy(i, j, ib * ldA + j, i * ldB + ib)]])
    ELSE Flatten([r \in 1..nn |->
            LET j == r - 1 IN
            [q \in DOMAIN ForLoop(0, netlibMin(nn - j, k + 1)) |->
                LET ib == ForLoop(0, netlibMin(nn - j, k + 1))[q]
                    i == j + ib
                IN Copy(i, j, ib * ldA + j, i * ldB + ib)]])

\* A mutation of convDpbToGonumCopies: the column loop starts at j = 1.
convDpbToGonumCopiesSkipFirst(ul, nn, k, ldA, ldB) ==
    IF ul = "U"
    THEN Flatten([r \in 1..(nn - 1) |->
            LET j == r IN
            [q \in DOMAIN ForLoop(netlibMax(0, k - j), k + 1) |->
                LET ib == ForLoop(netlibMax(0, k - j), k + 1)[q]
                    i == j - k + ib
                IN Copy(i, j, ib * ldA + j, i * ldB + k - ib)]])
    ELSE Flatten([r \in 1..(nn - 1) |->
            LET j == r IN
            [q \in DOMAIN ForLoop(0, netlibMin(nn - j, k + 1)) |->
                LET ib == ForLoop(0, netlibMin(nn - j, k + 1))[q]
                    i == j + ib
                IN Copy(i, j, ib * ldA + j, i * ldB + k - ib)]])

\* The statements b[i*ldb+kd-ib] = a[ib*lda+j] convDpbToGonum executes, in
\* loop order.
convDpbToGonumCopies(ul, nn, k, ldA, ldB) ==
    IF ul = "U"
    THEN Flatten([r \in 1..nn |->
            LET j == r - 1 IN
            [q \in DOMAIN ForLoop(netlibMax(0, k - j), k + 1) |->
                LET ib == ForLoop(netlibMax(0, k - j), k + 1)[q]
                    i == j - k + ib
                IN Copy(i, j, ib * ldA + j, i * ldB + k - ib)]])
    ELSE Flatten([r \in 1..nn |->
            LET j == r - 1 IN
            [q \in DOMAIN ForLoop(0, netlibMin(nn - j, k + 1)) |->
                LET ib == ForLoop(0, netlibMin(nn - j, k + 1))[q]
                    i == j + ib
                IN Copy(i, j, ib * ldA + j, i * ldB + k - ib)]])

\* func convDpbToGonum(uplo, n, kd, a, lda, b, ldb): a is the LAPACKE
\* row-major form, b the client (Gonum) form.
convDpbToGonum(ul, nn, k, bufA, ldA, bufB, ldB) ==
    RunCopies(bufA, bufB, convDpbToGonumCopies(ul, nn, k, ldA, ldB), 1)

(* --------------- lapack/lapacke/internal/conv converters --------------- *)
\* A mutation of DpbToColMajorCopies: the destination column taken to be the
\* row index i instead of j.
DpbToColMajorCopiesRowForCol(ul, nn, k, ldA, ldB) ==
    IF ul = "U"
    THEN Flatten([r \in 1..nn |->
            LET i == r - 1 IN
            [q \in DOMAIN ForLoop(0, min(nn - i, k + 1)) |->
                LET jb == ForLoop(0, min(nn - i, k + 1))[q]
                IN Copy(i, i + jb, i * ldA + jb, k - jb + i * ldB)]])
    ELSE Flatten([r \in 1..nn |->
            LET i == r - 1 IN
            [q \in DOMAIN ForLoop(max(0, k - i), k + 1) |->
                LET jb == ForLoop(max(0, k - i), k + 1)[q]
                IN Copy(i, i - k + jb, i * ldA + jb, k - jb + i * ldB)]])

\* A mutation of DpbToColMajorCopies: the outer loop runs while i <= n.
DpbToColMajorCopiesOffByOne(ul, nn, k, ldA, ldB) ==
    IF ul = "U"
    THEN Flatten([r \in 1..(nn + 1) |->
            LET i == r - 1 IN
            [q \in DOMAIN ForLoop(0, min(nn - i, k + 1)) |->
                LET jb == ForLoop(0, min(nn - i, k + 1))[q]
                IN Copy(i, i + jb, i * ldA + jb, k - jb + (i + jb) * ldB)]])
    ELSE Flatten([r \in 1..(nn + 1) |->
            LET i == r - 1 IN
            [q \in DOMAIN ForLoop(max(0, k - i), k + 1) |->
                LET jb == ForLoop(max(0, k - i), k + 1)[q]
                IN Copy(i, i - k + jb, i * ldA + jb, k - jb + (i - k + jb) * ldB)]])

\* The statements b[kd-jb+j*ldb] = a[i*lda+jb] DpbToColMajor executes, in
\* loop order.
DpbToColMajorCopies(ul, nn, k, ldA, ldB) ==
    IF ul = "U"
    THEN Flatten([r \in 1..nn |->
            LET i == r - 1 IN
            [q \in DOMAIN ForLoop(0, min(nn - i, k + 1)) |->
                LET jb == ForLoop(0, min(nn - i, k + 1))[q]
                    j == i + jb
                IN Copy(i, j, i * ldA + jb, k - jb + j * ldB)]])
    ELSE Flatten([r \in 1..nn |->
            LET i == r - 1 IN
            [q \in DOMAIN ForLoop(max(0, k - i), k + 1) |->
                LET jb == ForLoop(max(0, k - i), k + 1)[q]
                    j == i - k + jb
                IN Copy(i, j, i * ldA + jb, k - jb + j * ldB)]])

\* func DpbToColMajor(uplo, n, kd, a, lda, b, ldb): a is the row-major
\* form, b the column-major form.
DpbToColMajor(ul, nn, k, bufA, ldA, bufB, ldB) ==
    RunCopies(bufA, bufB, DpbToColMajorCopies(ul, nn, k, ldA, ldB), 1)

\* A mutation of DpbToRowMajorCopies: the client offset written is ib
\* instead of kd-ib.
DpbToRowMajorCopiesWrongSlot(ul, nn, k, ldA, ldB) ==
    IF ul = "U"
    THEN Flatten([r \in 1..nn |->
            LET j == r - 1 IN
            [q \in DOMAIN ForLoop(max(0, k - j), k + 1) |->
                LET ib == ForLoop(max(0, k - j), k + 1)[q]
                    i == j - k + ib
                IN Copy(i, j, ib + j * ldA, i * ldB + ib)]])
    ELSE Flatten([r \in 1..nn |->
            LET j == r - 1 IN
            [q \in DOMAIN ForLoop(0, min(nn - j, k + 1)) |->
                LET ib == ForLoop(0, min(nn - j, k + 1))[q]
                    i == j + ib
                IN Copy(i, j, ib + j * ldA, i * ldB + ib)]])

\* The statements b[i*ldb+kd-ib] = a[ib+j*lda] DpbToRowMajor executes, in
\* loop order.
DpbToRowMajorCopies(ul, nn, k, ldA, ldB) ==
    IF ul = "U"
    THEN Flatten([r \in 1..nn |->
            LET j == r - 1 IN
            [q \in DOMAIN ForLoop(max(0, k - j), k + 1) |->
                LET ib == ForLoop(max(0, k - j), k + 1)[q]
                    i == j - k + ib
                IN Copy(i, j, ib + j * ldA, i * ldB + k - ib)]])
    ELSE Flatten([r \in 1..nn |->
            LET j == r - 1 IN
            [q \in DOMAIN ForLoop(0, min(nn - j, k + 1)) |->
                LET ib == ForLoop(0, min(nn - j, k + 1))[q]
                    i == j + ib
                IN Copy(i, j, ib + j * ldA, i * ldB + k - ib)]])

\* func DpbToRowMajor(uplo, n, kd, a, lda, b, ldb): a is the column-major
\* form, b the row-major form.
DpbToRowMajor(ul, nn, k, bufA, ldA, bufB, ldB) ==
    RunCopies(bufA, bufB, DpbToRowMajorCopies(ul, nn, k, ldA, ldB), 1)

(* ------------------------- the caller's buffers ------------------------ *)
\* The smallest leading dimension of the library form: max(1, n) rows of
\* length n for LAPACKE row-major, kd+1 for column-major.
MinLdb(fam, nn, k) == IF fam = "bandTri" THEN netlibMax(1, nn) ELSE k + 1

\* Lengths of the client slice the model draws: n*lda as the tests allocate
\* it, the least length (n-1)*lda+kd+1 the wrappers accept, and one less.
ClientLens(nn, k, ldA) ==
    LET least == IF nn = 0 THEN 0 ELSE (nn - 1) * ldA + k + 1
    IN {x \in {nn * ldA, least, least - 1} : x >= 0}

\* Lengths of the library slice the model draws: (kd+1)*ldb resp. n*ldb as
\* the tests allocate it, one more, one less, and the empty slice.
LibLens(fam, nn, k, ldB) ==
    LET full == IF fam = "bandTri" THEN (k + 1) * ldB ELSE nn * ldB
    IN {x \in {full + 1, full, full - 1, 0} : x >= 0}

\* Contents the model draws: distinct values in every slot of both slices,
\* or the destination of the first call pre-filled with the sentinel.
Fills == {"distinct", "sentinelB", "sentinelA"}

FillA(f, len) == [x \in 0..(len - 1) |-> IF f = "sentinelA" THEN Sentinel ELSE x + 1]

FillB(f, len) == [x \in 0..(len - 1) |-> IF f = "sentinelB" THEN Sentinel ELSE 0 - (x + 2)]

\* The documented cases of TestConvBandTri and TestDpb: n = 6, kd = 2.
TestN == 6

TestKd == 2

\* A slice holding the elements of a sequence.
Slice(seq) == [x \in 0..(Len(seq) - 1) |-> seq[x + 1]]

\* test.a of the documented cases (the same rows in both tests), rows of
\* length kd+1; -1 marks the slots that are not referenced.
TestA(ul) ==
    IF ul = "U"
    THEN <<1, 2, 3, 4, 5, 6, 7, 8, 9, 10, 11, 12, 13, 14, -1, 15, -1, -1>>
    ELSE <<-1, -1, 1, -1, 2, 3, 4, 5, 6, 7, 8, 9, 10, 11, 12, 13, 14, 15>>

\* test.b of the documented cases: diagonals of length n (TestConvBandTri),
\* columns of length kd+1 (TestDpb).
TestB(fam, ul) ==
    IF fam = "bandTri"
    THEN IF ul = "U"
         THEN <<-1, -1, 3, 6, 9, 12, -1, 2, 5, 8, 11, 14, 1, 4, 7, 10, 13, 15>>
         ELSE <<1, 3, 6, 9, 12, 15, 2, 5, 8, 11, 14, -1, 4, 7, 10, 13, -1, -1>>
    ELSE IF ul = "U"
         THEN <<-1, -1, 1, -1, 2, 4, 3, 5, 7, 6, 8, 10, 9, 11, 13, 12, 14, 15>>
         ELSE <<1, 2, 4, 3, 5, 7, 6, 8, 10, 9, 11, 13, 12, 14, -1, 15, -1, -1>>

\* got := make([]float64, len); got[i] = -1
SentinelSlice(len) == [x \in 0..(len - 1) |-> Sentinel]

\* The parameter sweep of the tests, widened by undersized strides and
\* slices.
InitSweep ==
    /\ family \in {"bandTri", "pb"}
    /\ uplo \in {"U", "L"}
    /\ n \in 0..MaxN
    /\ kd \in 0..MaxKd
    /\ lda \in {x \in {kd + 1 + e : e \in (0 - 1)..MaxExtra} : x >= 1}
    /\ ldb \in {x \in {MinLdb(family, n, kd) + e : e \in (0 - 1)..MaxExtra} : x >= 1}
    /\ fill \in Fills
    /\ \E la \in ClientLens(n, kd, lda) : a = FillA(fill, la)
    /\ \E lb \in LibLens(family, n, kd, ldb) : b = FillB(fill, lb)

\* The documented cases of the tests: the table's a converted into a
\* sentinel-filled got ("exampleFwd"), or the table's b converted into a
\* sentinel-filled got ("exampleInv").
InitExample ==
    /\ family \in {"bandTri", "pb"}
    /\ uplo \in {"U", "L"}
    /\ n = TestN
    /\ kd = TestKd
    /\ lda = kd + 1
    /\ ldb = IF family = "bandTri" THEN netlibMax(1, n) ELSE lda
    /\ fill \in {"exampleFwd", "exampleInv"}
    /\ a = IF fill = "exampleFwd" THEN Slice(TestA(uplo)) ELSE SentinelSlice(Len(TestA(uplo)))
    /\ b = IF fill = "exampleInv" THEN Slice(TestB(family, uplo)) ELSE SentinelSlice(Len(TestB(family, uplo)))

Init ==
    /\ InitSweep \/ InitExample
    /\ a0 = a
    /\ b0 = b
    /\ prevA = a
    /\ prevB = b
    /\ hist = <<>>
    /\ trace = <<>>
    /\ prevTrace = <<>>
    /\ pc = "ready"
    /\ wrap = Idle
    /\ piv = Idle
    /\ conc = Idle
    /\ idx = Idle

\* What every call does to the caller's state: r is the converter's result
\* with the client slice as r.client and the library slice as r.lib.
Called(name, client, lib, tr, panicked) ==
    /\ a' = client
    /\ b' = lib
    /\ prevA' = a
    /\ prevB' = b
    /\ trace' = tr
    /\ prevTrace' = trace
    /\ hist' = Append(hist, name)
    /\ pc' = IF panicked THEN "panic" ELSE "ready"
    /\ UNCHANGED params
    /\ UNCHANGED <<wrap, piv, conc, idx>>

\* bandTriToLapacke(uplo, n, kd, a, lda, b, ldb)
ToLapacke ==
    /\ pc = "ready"
    /\ family = "bandTri"
    /\ Len(hist) < MaxCalls
    /\ LET r == convDpbToLapacke(uplo, n, kd, a, lda, b, ldb)
       IN Called("ToLapacke", r.src, r.dst, r.trace, r.panicked)

\* bandTriToGonum(uplo, n, kd, b, ldb, a, lda)
ToGonum ==
    /\ pc = "ready"
    /\ family = "bandTri"
    /\ Len(hist) < MaxCalls
    /\ LET r == convDpbToGonum(uplo, n, kd, b, ldb, a, lda)
       IN Called("ToGonum", r.dst, r.src, r.trace, r.panicked)

\* DpbToColMajor(uplo, n, kd, a, lda, b, ldb)
ToColMajor ==
    /\ pc = "ready"
    /\ family = "pb"
    /\ Len(hist) < MaxCalls
    /\ LET r == DpbToColMajor(uplo, n, kd, a, lda, b, ldb)
       IN Called("ToColMajor", r.src, r.dst, r.trace, r.panicked)

\* DpbToRowMajor(uplo, n, kd, b, ldb, a, lda)
ToRowMajor ==
    /\ pc = "ready"
    /\ family = "pb"
    /\ Len(hist) < MaxCalls
    /\ LET r == DpbToRowMajor(uplo, n, kd, b, ldb, a, lda)
       IN Called("ToRowMajor", r.dst, r.src, r.trace, r.panicked)

Next == ToLapacke \/ ToGonum \/ ToColMajor \/ ToRowMajor

Spec == Init /\ [][Next]_vars

(* ------------------------ vocabulary of the claims --------------------- *)
\* The call made last, "none" before the first.
last == IF hist = <<>> THEN "none" ELSE hist[Len(hist)]

\* The stored elements (i, j) of the n x n band matrix with kd off-diagonals
\* in the selected triangle.
Band == {e \in (0..(n - 1)) \X (0..(n - 1)) :
            IF uplo = "U" THEN e[1] <= e[2] /\ e[2] <= e[1] + kd
                          ELSE e[2] <= e[1] /\ e[1] <= e[2] + kd}

\* The full triangle of the n x n matrix.
Triangle == {e \in (0..(n - 1)) \X (0..(n - 1)) :
                IF uplo = "U" THEN e[1] <= e[2] ELSE e[2] <= e[1]}

\* Offset of element (i, j) in the client form with stride ld.
ClientOff(i, j, ld) == i * ld + (IF uplo = "U" THEN j - i ELSE kd - (i - j))

\* Row of element (i, j) in the library band array.
BandRow(i, j) == IF uplo = "U" THEN kd - (j - i) ELSE i - j

\* Offset of element (i, j) in the library form of the family with stride ld.
LibOff(i, j, ld) == IF family = "bandTri" THEN BandRow(i, j) * ld + j ELSE BandRow(i, j) + j * ld

\* The leading dimensions the wrappers accept.
ValidStrides == lda >= kd + 1 /\ ldb >= MinLdb(family, n, kd)

\* The slice lengths the wrappers accept (least client length; library
\* length (kd+1)*ldb resp. n*ldb).
ClientLenOk == n = 0 \/ SliceLen(a) >= (n - 1) * lda + kd + 1

LibLenOk == SliceLen(b) >= (IF family = "bandTri" THEN (kd + 1) * ldb ELSE n * ldb)

\* The call made last wrote into the library slice / into the client slice.
Forward == last \in {"ToLapacke", "ToColMajor"}

Inverse == last \in {"ToGonum", "ToRowMajor"}

(* -------------------------------- claims ------------------------------- *)
\* C1: band-triangular round trip.  With lda >= kd+1, ldb >= max(1,n) and
\* slices of the accepted lengths, bandTriToLapacke(a -> b) followed by
\* bandTriToGonum(b -> a) completes and leaves every slot of a (band,
\* corner and padding) with the value it had before the two calls.
C1_RoundTripBandTri ==
    (family = "bandTri" /\ ValidStrides /\ ClientLenOk /\ LibLenOk)
        => /\ (hist = <<"ToLapacke">> => pc = "ready")
           /\ (hist = <<"ToLapacke", "ToGonum">> => pc = "ready" /\ a = a0)

C1_Witness ==
    /\ family = "bandTri" /\ ValidStrides /\ ClientLenOk /\ LibLenOk
    /\ hist = <<"ToLapacke", "ToGonum">> /\ pc = "ready"
    /\ n >= 3 /\ kd >= n /\ lda > kd + 1 /\ SliceLen(a) = n * lda
    /\ fill = "distinct" /\ a = a0 /\ b # b0

\* C2: packed column-major round trip.  With lda >= kd+1, ldb >= kd+1 and
\* slices of the accepted lengths, DpbToColMajor(a -> b) followed by
\* DpbToRowMajor(b -> a) completes and leaves every slot of a unchanged.
C2_RoundTripPacked ==
    (family = "pb" /\ ValidStrides /\ ClientLenOk /\ LibLenOk)
        => /\ (hist = <<"ToColMajor">> => pc = "ready")
           /\ (hist = <<"ToColMajor", "ToRowMajor">> => pc = "ready" /\ a = a0)

C2_Witness ==
    /\ family = "pb" /\ ValidStrides /\ ClientLenOk /\ LibLenOk
    /\ hist = <<"ToColMajor", "ToRowMajor">> /\ pc = "ready"
    /\ n >= 3 /\ kd >= n /\ ldb > kd + 1 /\ SliceLen(a) = n * lda
    /\ uplo = "L" /\ fill = "distinct" /\ a = a0 /\ b # b0

\* C3: band-triangular forward mapping.  After a completed
\* bandTriToLapacke with ldb >= max(1,n): upper, every i in [0,n) and jb in
\* [0, min(n-i,kd+1)) has b[(kd-jb)*ldb + i+jb] = a[i*lda+jb]; lower, every
\* i and jb in [max(0,kd-i), kd+1) has b[(kd-jb)*ldb + i-kd+jb] =
\* a[i*lda+jb].  The diagonal (jb = 0 upper, jb = kd lower) is library row
\* kd for upper and row 0 for lower.
C3_ForwardMapping ==
    (last = "ToLapacke" /\ pc = "ready" /\ ldb >= netlibMax(1, n))
        => \A i \in 0..(n - 1) :
              /\ uplo = "U" =>
                    /\ \A jb \in 0..(netlibMin(n - i, kd + 1) - 1) :
                          b[(kd - jb) * ldb + (i + jb)] = prevA[i * lda + jb]
                    /\ b[kd * ldb + i] = prevA[i * lda]
              /\ uplo = "L" =>
                    /\ \A jb \in netlibMax(0, kd - i)..kd :
                          b[(kd - jb) * ldb + (i - kd + jb)] = prevA[i * lda + jb]
                    /\ b[i] = prevA[i * lda + kd]

C3_Witness ==
    /\ hist = <<"ToLapacke">> /\ pc = "ready" /\ ValidStrides
    /\ n >= 3 /\ kd = 2 /\ uplo = "L" /\ fill = "sentinelB"
    /\ b[0] = prevA[kd] /\ b[ldb] = prevA[lda + kd - 1] /\ b # prevB

\* C4: packed mapping.  After a completed DpbToColMajor with ldb >= kd+1,
\* every band element (i,j) has b[(kd-jb) + j*ldb] = a[i*lda+jb] with
\* jb = j-i (upper) or kd-(i-j) (lower).  After a completed DpbToRowMajor
\* with client stride >= kd+1, every band element has
\* dst[i*ld + (kd-ib)] = src[ib + j*lds] with ib = kd-(j-i) in
\* [max(0,kd-j), kd+1) (upper) or ib = i-j in [0, min(n-j,kd+1)) (lower).
C4_PackedMapping ==
    /\ (last = "ToColMajor" /\ pc = "ready" /\ ldb >= kd + 1)
          => \A e \in Band :
                LET i == e[1]
                    j == e[2]
                    jb == IF uplo = "U" THEN j - i ELSE kd - (i - j)
                IN b[(kd - jb) + j * ldb] = prevA[i * lda + jb]
    /\ (last = "ToRowMajor" /\ pc = "ready" /\ lda >= kd + 1)
          => \A e \in Band :
                LET i == e[1]
                    j == e[2]
                    ib == IF uplo = "U" THEN kd - (j - i) ELSE i - j
                IN /\ a[i * lda + (kd - ib)] = prevB[ib + j * ldb]
                   /\ uplo = "U" => ib >= max(0, kd - j) /\ ib < kd + 1
                   /\ uplo = "L" => ib >= 0 /\ ib < min(n - j, kd + 1)

C4_Witness ==
    /\ hist = <<"ToColMajor", "ToRowMajor">> /\ pc = "ready" /\ ValidStrides
    /\ n >= 3 /\ kd = 1 /\ uplo = "U" /\ fill = "sentinelB"
    /\ a = prevA /\ prevB # b0 /\ a[lda + 1] = prevB[2 * ldb]

\* Offsets of the destination the band elements map to: library offsets
\* for a forward call, client offsets for an inverse call.
LibImage == {LibOff(e[1], e[2], ldb) : e \in Band}

ClientImage == {ClientOff(e[1], e[2], lda) : e \in Band}

\* C5: unreferenced destination slots are never written.  After any of the
\* four conversions (completed or stopped by a panic), every destination
\* slot that is not the image of a band element (corner slots, stride
\* padding) holds the value it held before the call, and the slice keeps
\* its length.
C5_UnreferencedUntouched ==
    /\ Forward => /\ DOMAIN b = DOMAIN prevB
                  /\ \A x \in DOMAIN b : x \notin LibImage => b[x] = prevB[x]
    /\ Inverse => /\ DOMAIN a = DOMAIN prevA
                  /\ \A x \in DOMAIN a : x \notin ClientImage => a[x] = prevA[x]

C5_Witness ==
    /\ hist = <<"ToLapacke">> /\ pc = "ready" /\ ValidStrides
    /\ uplo = "U" /\ n >= 3 /\ kd = 2 /\ ldb > n /\ fill = "distinct"
    /\ 0 \notin LibImage /\ b[0] = prevB[0]
    /\ n \notin LibImage /\ b[n] = prevB[n]
    /\ b[2] # prevB[2]

\* C6: non-mutation of the source.  The model's two slices are distinct
\* buffers; after any of the four conversions the source slice (client for
\* a forward call, library for an inverse call) equals its value before
\* the call in every slot.
C6_SourceUnchanged ==
    /\ Forward => a = prevA
    /\ Inverse => b = prevB

C6_Witness ==
    /\ hist = <<"ToRowMajor">> /\ pc = "ready" /\ ValidStrides
    /\ n >= 3 /\ kd >= 1 /\ fill = "distinct"
    /\ b = prevB /\ a # prevA

\* C7: inverse-then-forward round trip.  With valid strides and accepted
\* lengths, converting the library slice to client form (bandTriToGonum,
\* resp. DpbToRowMajor) and converting that client slice back
\* (bandTriToLapacke, resp. DpbToColMajor) completes and leaves every slot
\* of the library slice with the value it had before the two calls.
C7_InverseThenForward ==
    (ValidStrides /\ ClientLenOk /\ LibLenOk)
        => /\ (hist \in {<<"ToGonum">>, <<"ToRowMajor">>} => pc = "ready")
           /\ (hist \in {<<"ToGonum", "ToLapacke">>, <<"ToRowMajor", "ToColMajor">>}
                  => pc = "ready" /\ b = b0)

C7_Witness ==
    /\ ValidStrides /\ ClientLenOk /\ LibLenOk
    /\ hist = <<"ToGonum", "ToLapacke">> /\ pc = "ready"
    /\ n >= 3 /\ kd >= 1 /\ uplo = "U" /\ fill = "sentinelA"
    /\ a # a0 /\ b = b0

\* C8: oversized kd clips.  For n >= 1 and kd >= n-1, every copy of every
\* conversion addresses a row i and a column j in [0, n), and a completed
\* conversion copies exactly the pairs of the full triangle (i <= j upper,
\* j <= i lower).
C8_OversizedKdClips ==
    (last # "none" /\ n >= 1 /\ kd >= n - 1)
        => /\ \A q \in DOMAIN trace : trace[q].i \in 0..(n - 1) /\ trace[q].j \in 0..(n - 1)
           /\ pc = "ready" => {<<trace[q].i, trace[q].j>> : q \in DOMAIN trace} = Triangle

C8_Witness ==
    /\ hist = <<"ToGonum">> /\ pc = "ready" /\ ValidStrides
    /\ n = 3 /\ kd > n /\ uplo = "L"
    /\ Len(trace) = 6 /\ a # prevA

\* C9: totality and memory safety.  If the client slice has length at least
\* (n-1)*lda + kd+1 (n >= 1) and the library slice has length at least
\* (kd+1)*ldb with ldb >= max(1,n) (packed: n*ldb with ldb >= kd+1), every
\* conversion completes without an index panic, every offset it reads or
\* writes lies inside its slice, and it makes at most n*(kd+1) copies.
C9_MemorySafe ==
    (last # "none" /\ ClientLenOk /\ LibLenOk /\ ldb >= MinLdb(family, n, kd))
        => /\ pc = "ready"
           /\ Len(trace) <= n * (kd + 1)
           /\ \A q \in DOMAIN trace :
                 IF Forward
                 THEN trace[q].src \in DOMAIN a /\ trace[q].dst \in DOMAIN b
                 ELSE trace[q].src \in DOMAIN b /\ trace[q].dst \in DOMAIN a

C9_Witness ==
    /\ hist = <<"ToColMajor">> /\ pc = "ready"
    /\ ClientLenOk /\ LibLenOk /\ ldb = kd + 1
    /\ n >= 3 /\ kd >= 2 /\ lda > kd + 1 /\ uplo = "L"
    /\ SliceLen(a) = (n - 1) * lda + kd + 1
    /\ SliceLen(b) = n * ldb
    /\ \E q \in DOMAIN trace : trace[q].src = SliceLen(a) - 1
    /\ \E q \in DOMAIN trace : trace[q].dst = (n - 1) * ldb

\* C10: degenerate n = 0.  For every kd, triangle and strides, a conversion
\* called with n = 0 makes no copy (no read, no write), completes even on
\* empty slices, and leaves both slices unchanged.
C10_ZeroN ==
    (n = 0 /\ last # "none")
        => pc = "ready" /\ trace = <<>> /\ a = prevA /\ b = prevB

C10_Witness ==
    /\ n = 0 /\ kd >= 2 /\ hist = <<"ToColMajor", "ToRowMajor">>
    /\ SliceLen(a) = 0 /\ SliceLen(b) = 0 /\ pc = "ready"

\* The value the copy c of the call made last read, and the value its
\* destination slot holds after the call.
SrcValue(c) == IF Forward THEN prevA[c.src] ELSE prevB[c.src]

DstValue(c) == IF Forward THEN b[c.dst] ELSE a[c.dst]

\* Client and library offset of the copy c of the call made last.
ClientOffOf(c) == IF Forward THEN c.src ELSE c.dst

LibOffOf(c) == IF Forward THEN c.dst ELSE c.src

\* C11 as stated: with kd = 0 a completed conversion copies exactly the n
\* main-diagonal elements, each with identical value and identical buffer
\* position in the source form and in the destination form (checked on
\* calls with valid strides and accepted lengths).
C11_AsStated ==
    (kd = 0 /\ last # "none" /\ pc = "ready" /\ ValidStrides /\ ClientLenOk /\ LibLenOk)
        => /\ Len(trace) = n
           /\ \A q \in DOMAIN trace :
                 /\ trace[q].i = trace[q].j
                 /\ DstValue(trace[q]) = SrcValue(trace[q])
                 /\ trace[q].dst = trace[q].src

\* C11 (amended): with kd = 0 a completed conversion copies exactly the n
\* main-diagonal elements (i,i), i = 0..n-1, once each and nothing else,
\* each with identical value; element (i,i) sits at client offset i*lda and
\* at library offset i (band-triangular) or i*ldb (packed), so the two
\* buffer positions coincide for every element exactly when n <= 1 or the
\* client stride equals 1 (band-triangular) resp. the library stride
\* (packed).
C11_DiagonalOnly ==
    (kd = 0 /\ last # "none" /\ pc = "ready")
        => /\ Len(trace) = n
           /\ {<<trace[q].i, trace[q].j>> : q \in DOMAIN trace} = {<<i, i>> : i \in 0..(n - 1)}
           /\ \A q \in DOMAIN trace :
                 /\ DstValue(trace[q]) = SrcValue(trace[q])
                 /\ ClientOffOf(trace[q]) = trace[q].i * lda
                 /\ LibOffOf(trace[q]) = (IF family = "bandTri" THEN trace[q].i ELSE trace[q].i * ldb)
           /\ (\A q \in DOMAIN trace : trace[q].dst = trace[q].src)
                 <=> (n <= 1 \/ (IF family = "bandTri" THEN lda = 1 ELSE lda = ldb))

C11_Witness ==
    /\ kd = 0 /\ hist = <<"ToGonum">> /\ pc = "ready"
    /\ n >= 3 /\ lda = 2 /\ uplo = "L" /\ fill = "sentinelA"
    /\ Len(trace) = n /\ a[2 * lda] = prevB[2] /\ a[1] = Sentinel

\* The destination offsets the call made last wrote, and the destination
\* slots whose value it changed.
DstWritten == {trace[q].dst : q \in DOMAIN trace}

DstChanged == IF Forward THEN {x \in DOMAIN b : b[x] # prevB[x]}
                         ELSE {x \in DOMAIN a : a[x] # prevA[x]}

DstImage == IF Forward THEN LibImage ELSE ClientImage

\* The number of off-diagonals that exist in an n x n matrix: kd clipped to
\* n-1.
ClippedKd == netlibMin(kd, n - 1)

\* Element count of the stored triangular band: the diagonal and ClippedKd
\* off-diagonals on one side.
BandCount == n + ClippedKd * n - (ClippedKd * (ClippedKd + 1)) \div 2

\* The count the claim states, n + 2*kd*n - kd*(kd+1), read with kd clipped
\* to n-1 and capped to the size of the triangle.
StatedCount == netlibMin(n + 2 * ClippedKd * n - ClippedKd * (ClippedKd + 1), (n * (n + 1)) \div 2)

\* C12 as stated: a completed conversion with valid strides writes exactly
\* n + 2*kd*n - kd*(kd+1) distinct destination offsets (capped to the
\* triangle), none outside the band.
C12_AsStated ==
    (last # "none" /\ pc = "ready" /\ ValidStrides /\ ClientLenOk /\ LibLenOk)
        => Cardinality(DstWritten) = StatedCount /\ DstWritten \subseteq DstImage

\* C12 (amended): a completed conversion with valid strides writes exactly
\* n + m*n - m*(m+1)/2 distinct destination offsets, m = min(kd, n-1): the
\* element count of the one stored triangle of the band (the diagonal and
\* m off-diagonals on one side), and no offset outside the band.  Into a
\* sentinel-filled destination exactly that many slots change.
C12_LocalityCount ==
    (last # "none" /\ pc = "ready" /\ ValidStrides)
        => /\ Cardinality(DstWritten) = BandCount
           /\ DstWritten = DstImage
           /\ Cardinality(Band) = BandCount
           /\ DstChanged \subseteq DstWritten
           /\ (Len(hist) = 1 /\ fill = (IF Forward THEN "sentinelB" ELSE "sentinelA"))
                 => Cardinality(DstChanged) = BandCount

C12_Witness ==
    /\ hist = <<"ToColMajor">> /\ pc = "ready" /\ ValidStrides
    /\ n = 4 /\ kd = 1 /\ uplo = "U" /\ fill = "sentinelB" /\ ldb > kd + 1
    /\ Cardinality(DstChanged) = 7 /\ StatedCount = 10

\* The full-matrix elements a list of copies visits.
Visited(tr) == {<<tr[q].i, tr[q].j>> : q \in DOMAIN tr}

\* C13: same element set in both directions.  When a completed forward
\* conversion (row-iterating) is followed by the completed inverse
\* (column-iterating) with the same (uplo, n, kd) and strides, the inverse
\* visits exactly the (row, column) pairs the forward call visited, each
\* once, and for each pair it reads the library offset the forward call
\* wrote and writes the client offset the forward call read.
C13_SameElements ==
    (hist \in {<<"ToLapacke", "ToGonum">>, <<"ToColMajor", "ToRowMajor">>} /\ pc = "ready")
        => /\ Visited(trace) = Visited(prevTrace)
           /\ Len(trace) = Len(prevTrace)
           /\ \A q \in DOMAIN trace : \A p \in DOMAIN prevTrace :
                 (trace[q].i = prevTrace[p].i /\ trace[q].j = prevTrace[p].j)
                    => (trace[q].src = prevTrace[p].dst /\ trace[q].dst = prevTrace[p].src)

C13_Witness ==
    /\ hist = <<"ToLapacke", "ToGonum">> /\ pc = "ready" /\ ValidStrides
    /\ n = 4 /\ kd = 2 /\ uplo = "U" /\ lda > kd + 1 /\ ldb > n
    /\ Len(trace) = 9 /\ trace # prevTrace
    /\ trace[1].i = 0 /\ prevTrace[2].i = 0 /\ prevTrace[2].j = 1 /\ trace[2].j = 1

\* C14: documented band-triangular examples (n = 6, kd = 2, lda = 3,
\* ldb = 6).  bandTriToLapacke into a sentinel-filled destination maps the
\* documented upper and lower client rows to the documented library
\* buffers, the * slots still holding the sentinel and the source intact;
\* bandTriToGonum into a sentinel-filled destination maps each documented
\* library buffer back to the documented client buffer.
C14_BandTriExamples ==
    /\ (family = "bandTri" /\ fill = "exampleFwd" /\ hist = <<"ToLapacke">>)
          => pc = "ready" /\ b = Slice(TestB("bandTri", uplo)) /\ a = Slice(TestA(uplo))
    /\ (family = "bandTri" /\ fill = "exampleInv" /\ hist = <<"ToGonum">>)
          => pc = "ready" /\ a = Slice(TestA(uplo)) /\ b = Slice(TestB("bandTri", uplo))

C14_Witness ==
    /\ family = "bandTri" /\ fill = "exampleFwd" /\ hist = <<"ToLapacke">>
    /\ n = 6 /\ kd = 2 /\ lda = 3 /\ ldb = 6 /\ uplo = "L" /\ pc = "ready"
    /\ prevB = SentinelSlice(18) /\ b[5] = 15 /\ b[12] = 4 /\ b[11] = Sentinel

\* C15: documented packed examples (n = 6, kd = 2, lda = ldb = 3).
\* DpbToColMajor into a sentinel-filled destination maps the documented
\* upper and lower client rows to the documented columns, and DpbToRowMajor
\* into a sentinel-filled destination maps each documented column-major
\* buffer back to the client rows; all * slots keep the sentinel.
C15_PackedExamples ==
    /\ (family = "pb" /\ fill = "exampleFwd" /\ hist = <<"ToColMajor">>)
          => pc = "ready" /\ b = Slice(TestB("pb", uplo)) /\ a = Slice(TestA(uplo))
    /\ (family = "pb" /\ fill = "exampleInv" /\ hist = <<"ToRowMajor">>)
          => pc = "ready" /\ a = Slice(TestA(uplo)) /\ b = Slice(TestB("pb", uplo))

C15_Witness ==
    /\ family = "pb" /\ fill = "exampleInv" /\ hist = <<"ToRowMajor">>
    /\ n = 6 /\ kd = 2 /\ lda = 3 /\ ldb = 3 /\ uplo = "U" /\ pc = "ready"
    /\ prevA = SentinelSlice(18) /\ a[2] = 3 /\ a[15] = 15 /\ a[16] = Sentinel

\* C16: bijection on the band.  With client stride >= kd+1 and library
\* stride >= max(1,n) (band-triangular) or >= kd+1 (packed), distinct band
\* elements have distinct client offsets and distinct library offsets, and
\* a completed conversion writes every destination band offset exactly
\* once: no two of its copies read the same slot or target the same slot.
C16_Bijection ==
    (last # "none" /\ pc = "ready" /\ ValidStrides)
        => /\ \A p, q \in DOMAIN trace :
                 p # q => trace[p].dst # trace[q].dst /\ trace[p].src # trace[q].src
           /\ DstWritten = DstImage
           /\ \A e, f \in Band :
                 e # f => /\ ClientOff(e[1], e[2], lda) # ClientOff(f[1], f[2], lda)
                          /\ LibOff(e[1], e[2], ldb) # LibOff(f[1], f[2], ldb)
           /\ \A q \in DOMAIN trace :
                 /\ ClientOffOf(trace[q]) = ClientOff(trace[q].i, trace[q].j, lda)
                 /\ LibOffOf(trace[q]) = LibOff(trace[q].i, trace[q].j, ldb)

C16_Witness ==
    /\ hist = <<"ToRowMajor">> /\ pc = "ready" /\ ValidStrides
    /\ n = 4 /\ kd >= 4 /\ uplo = "U" /\ ldb > kd + 1
    /\ Len(trace) = 10 /\ Cardinality(DstWritten) = 10

(* ------------------ lapack/netlib band wrappers ------------------------ *)
\* The converter variables while a specification that does not use them
\* runs.
convVars == <<family, uplo, n, kd, lda, ldb, fill, a, b, a0, b0, prevA, prevB,
              hist, trace, prevTrace, pc>>

ConvIdle ==
    /\ family = "bandTri" /\ uplo = "U" /\ n = 0 /\ kd = 0 /\ lda = 1 /\ ldb = 1
    /\ fill = "distinct" /\ a = <<>> /\ b = <<>> /\ a0 = <<>> /\ b0 = <<>>
    /\ prevA = <<>> /\ prevB = <<>> /\ hist = <<>> /\ trace = <<>>
    /\ prevTrace = <<>> /\ pc = "idle"

Wrappers == {"Dpbcon", "Dpbtrf", "Dpbtrs", "Dtbtrs"}

\* make([]float64, len)
make(len) == [x \in 0..(len - 1) |-> 0]

\* The naturals of lo..hi, and 0 when there is none: the lengths a slice
\* argument is drawn from.
Lens(lo, hi) == {netlibMax(0, x) : x \in lo..hi}

\* Dpbcon up to the allocation of _ab: a panic message, "return" for the
\* quick return, "" to go on.
DpbconEntry(w) ==
    IF w.uplo \notin {"U", "L"} THEN "badUplo"
    ELSE IF w.n < 0 THEN "nLT0"
    ELSE IF w.kd < 0 THEN "kdLT0"
    ELSE IF w.ldab < w.kd + 1 THEN "badLdA"
    ELSE IF w.anorm < 0 THEN "badNorm"
    ELSE IF w.n = 0 THEN "return"
    ELSE IF SliceLen(w.ab) < (w.n - 1) * w.ldab + w.kd + 1 THEN "shortAB"
    ELSE IF w.work < 3 * w.n THEN "shortWork"
    ELSE IF w.iwork < w.n THEN "shortIWork"
    ELSE ""

\* Dpbtrf up to the allocation of abConv.
DpbtrfEntry(w) ==
    IF w.uplo \notin {"U", "L"} THEN "badUplo"
    ELSE IF w.n < 0 THEN "nLT0"
    ELSE IF w.kd < 0 THEN "kdLT0"
    ELSE IF w.ldab < w.kd + 1 THEN "badLdA"
    ELSE IF w.n = 0 THEN "return"
    ELSE IF SliceLen(w.ab) < (w.n - 1) * w.ldab + w.kd + 1 THEN "shortAB"
    ELSE ""

\* Dpbtrs up to the allocation of abConv.
DpbtrsEntry(w) ==
    IF w.uplo \notin {"U", "L"} THEN "badUplo"
    ELSE IF w.n < 0 THEN "nLT0"
    ELSE IF w.kd < 0 THEN "kdLT0"
    ELSE IF w.nrhs < 0 THEN "nrhsLT0"
    ELSE IF w.ldab < w.kd + 1 THEN "badLdA"
    ELSE IF w.ldb < max(1, w.nrhs) THEN "badLdB"
    ELSE IF w.n = 0 \/ w.nrhs = 0 THEN "return"
    ELSE IF SliceLen(w.ab) < (w.n - 1) * w.ldab + w.kd THEN "shortAB"
    ELSE IF SliceLen(w.b) < (w.n - 1) * w.ldb + w.nrhs THEN "shortB"
    ELSE ""

\* Dtbtrs up to the allocation of aConv (its a, lda are ab, ldab here).
DtbtrsEntry(w) ==
    IF w.uplo \notin {"U", "L"} THEN "badUplo"
    ELSE IF w.trans \notin {"N", "T", "C"} THEN "badTrans"
    ELSE IF w.diag \notin {"N", "U"} THEN "badDiag"
    ELSE IF w.n < 0 THEN "nLT0"
    ELSE IF w.kd < 0 THEN "kdLT0"
    ELSE IF w.nrhs < 0 THEN "nrhsLT0"
    ELSE IF w.ldab < w.kd + 1 THEN "badLdA"
    ELSE IF w.ldb < max(1, w.nrhs) THEN "badLdB"
    ELSE IF w.n = 0 THEN "return"
    ELSE IF SliceLen(w.ab) < (w.n - 1) * w.ldab + w.kd + 1 THEN "shortA"
    ELSE IF SliceLen(w.b) < (w.n - 1) * w.ldb + w.nrhs THEN "shortB"
    ELSE ""

Entry(w) ==
    CASE w.fn = "Dpbcon" -> DpbconEntry(w)
      [] w.fn = "Dpbtrf" -> DpbtrfEntry(w)
      [] w.fn = "Dpbtrs" -> DpbtrsEntry(w)
      [] w.fn = "Dtbtrs" -> DtbtrsEntry(w)

\* A mutation of AfterKernel: every wrapper converts back.
AfterKernelAlwaysBack(fn) == "bandTriToGonum"

\* The statement that follows the kernel call: Dpbtrf converts abConv back
\* into ab, the other three return.
AfterKernel(fn) == IF fn = "Dpbtrf" THEN "bandTriToGonum" ELSE "return"

\* What the external kernel may leave in a buffer it is handed.
Negate(s) == [x \in DOMAIN s |-> 0 - s[x]]

\* One call of a band wrapper with arguments on both sides of every check
\* of its entry.  Arguments a wrapper does not take have one value.
InitWrap ==
    /\ ConvIdle
    /\ idx = Idle
    /\ piv = Idle
    /\ conc = Idle
    /\ \E fn \in Wrappers, ul \in {"U", "L", "?"}, nn \in (0 - 1)..WrapMaxN,
          k \in (0 - 1)..WrapMaxKd :
       \E nr \in IF fn \in {"Dpbtrs", "Dtbtrs"} THEN (0 - 1)..1 ELSE {1},
          tr \in IF fn = "Dtbtrs" THEN {"N", "?"} ELSE {"N"},
          dg \in IF fn = "Dtbtrs" THEN {"N", "?"} ELSE {"N"},
          an \in IF fn = "Dpbcon" THEN {0 - 1, 1} ELSE {1},
          ld \in Lens(k, k + 2) :
       \E ldB \in IF fn \in {"Dpbtrs", "Dtbtrs"}
                  THEN Lens(max(1, nr) - 1, max(1, nr)) ELSE {1},
          lenAb \in Lens((nn - 1) * ld + k - 1, (nn - 1) * ld + k + 1),
          lenWork \in IF fn = "Dpbcon" THEN Lens(3 * nn - 1, 3 * nn) ELSE {0},
          lenIwork \in IF fn = "Dpbcon" THEN Lens(nn - 1, nn) ELSE {0} :
       \E lenB \in IF fn \in {"Dpbtrs", "Dtbtrs"}
                   THEN Lens((nn - 1) * ldB + nr - 1, (nn - 1) * ldB + nr) ELSE {0} :
          /\ wrap = [fn |-> fn, uplo |-> ul, trans |-> tr, diag |-> dg,
                     n |-> nn, kd |-> k, nrhs |-> nr,
                     ab |-> FillA("distinct", lenAb), ldab |-> ld,
                     b |-> FillB("distinct", lenB), ldb |-> ldB,
                     anorm |-> an, work |-> lenWork, iwork |-> lenIwork,
                     ab0 |-> FillA("distinct", lenAb),
                     b0 |-> FillB("distinct", lenB),
                     abConv |-> <<>>, ldabConv |-> 0,
                     pc |-> "entry", err |-> "", events |-> <<>>]

\* The wrapper's argument checks and quick return.
WrapEntry ==
    /\ wrap.pc = "entry"
    /\ LET e == Entry(wrap) IN
       wrap' = [wrap EXCEPT
                  !.pc = IF e = "" THEN "checked"
                         ELSE IF e = "return" THEN "return" ELSE "panic",
                  !.err = IF e \in {"", "return"} THEN "" ELSE e]
    /\ UNCHANGED <<convVars, piv, conc, idx>>

\* ldabConv := n; abConv := make([]float64, (kd+1)*ldabConv);
\* bandTriToLapacke(uplo, n, kd, ab, ldab, abConv, ldabConv)
WrapToLapacke ==
    /\ wrap.pc = "checked"
    /\ LET r == convDpbToLapacke(wrap.uplo, wrap.n, wrap.kd, wrap.ab, wrap.ldab,
                                 make((wrap.kd + 1) * wrap.n), wrap.n)
       IN wrap' = [wrap EXCEPT
                     !.ldabConv = wrap.n,
                     !.ab = r.src,
                     !.abConv = r.dst,
                     !.pc = IF r.panicked THEN "panic" ELSE "converted",
                     !.err = IF r.panicked THEN "index out of range" ELSE "",
                     !.events = Append(@, IF r.panicked THEN "bandTriToLapacke.panic"
                                                        ELSE "bandTriToLapacke")]
    /\ UNCHANGED <<convVars, piv, conc, idx>>

\* Control passes to the external kernel (lapacke.Dpbcon, lapacke.Dpbtrf,
\* lapacke.Dpbtrs, lapacke.Dtbtrs).
WrapKernelCall ==
    /\ wrap.pc = "converted"
    /\ wrap' = [wrap EXCEPT !.pc = "kernel", !.events = Append(@, "kernel.call")]
    /\ UNCHANGED <<convVars, piv, conc, idx>>

\* The kernel returns, having possibly overwritten the buffers it was
\* handed: abConv, and b where the wrapper passes it.
WrapKernelReturn ==
    /\ wrap.pc = "kernel"
    /\ \E newConv \in {wrap.abConv, Negate(wrap.abConv)}, newB \in {wrap.b, Negate(wrap.b)} :
          /\ wrap.fn \in {"Dpbcon", "Dpbtrf"} => newB = wrap.b
          /\ wrap' = [wrap EXCEPT !.abConv = newConv, !.b = newB,
                                  !.pc = "kernelDone",
                                  !.events = Append(@, "kernel.return")]
    /\ UNCHANGED <<convVars, piv, conc, idx>>

\* bandTriToGonum(uplo, n, kd, abConv, ldabConv, ab, ldab); return
WrapToGonum ==
    /\ wrap.pc = "kernelDone"
    /\ AfterKernel(wrap.fn) = "bandTriToGonum"
    /\ LET r == convDpbToGonum(wrap.uplo, wrap.n, wrap.kd, wrap.abConv, wrap.ldabConv,
                               wrap.ab, wrap.ldab)
       IN wrap' = [wrap EXCEPT
                     !.abConv = r.src,
                     !.ab = r.dst,
                     !.pc = IF r.panicked THEN "panic" ELSE "return",
                     !.err = IF r.panicked THEN "index out of range" ELSE "",
                     !.events = Append(@, IF r.panicked THEN "bandTriToGonum.panic"
                                                        ELSE "bandTriToGonum")]
    /\ UNCHANGED <<convVars, piv, conc, idx>>

\* return of Dpbcon, Dpbtrs and Dtbtrs with the kernel's result.
WrapReturn ==
    /\ wrap.pc = "kernelDone"
    /\ AfterKernel(wrap.fn) = "return"
    /\ wrap' = [wrap EXCEPT !.pc = "return"]
    /\ UNCHANGED <<convVars, piv, conc, idx>>

NextWrap ==
    WrapEntry \/ WrapToLapacke \/ WrapKernelCall \/ WrapKernelReturn
        \/ WrapToGonum \/ WrapReturn

SpecWrap == InitWrap /\ [][NextWrap]_vars

\* C17: conversion/kernel ordering.  In every wrapper call the kernel is
\* called only directly after the one completed bandTriToLapacke, which is
\* the first thing the call does to a buffer; bandTriToGonum happens only in
\* Dpbtrf and only directly after the kernel has returned; a call of Dpbcon,
\* Dpbtrs or Dtbtrs that reached the kernel returns without converting back.
C17_KernelOrdering ==
    wrap.pc # "idle" =>
        LET ev == wrap.events IN
        /\ \A q \in DOMAIN ev :
              /\ ev[q] \in {"bandTriToLapacke", "bandTriToLapacke.panic"} => q = 1
              /\ ev[q] = "kernel.call" => q = 2 /\ ev[1] = "bandTriToLapacke"
              /\ ev[q] = "kernel.return" => q = 3 /\ ev[2] = "kernel.call"
              /\ ev[q] \in {"bandTriToGonum", "bandTriToGonum.panic"}
                    => wrap.fn = "Dpbtrf" /\ q = 4 /\ ev[3] = "kernel.return"
        /\ (wrap.pc = "return" /\ ev # <<>>)
              => ev = IF wrap.fn = "Dpbtrf"
                      THEN <<"bandTriToLapacke", "kernel.call", "kernel.return", "bandTriToGonum">>
                      ELSE <<"bandTriToLapacke", "kernel.call", "kernel.return">>

C17_Witness ==
    /\ wrap.pc = "return"
    /\ wrap.fn = "Dpbtrf"
    /\ wrap.n >= 2 /\ wrap.kd >= 1
    /\ wrap.events = <<"bandTriToLapacke", "kernel.call", "kernel.return", "bandTriToGonum">>
    /\ wrap.ab # wrap.ab0

\* The arguments C18 says a band wrapper rejects.
BadBandArgs(w) ==
    \/ w.n < 0
    \/ w.kd < 0
    \/ w.ldab < w.kd + 1
    \/ (w.n > 0 /\ SliceLen(w.ab0) < (w.n - 1) * w.ldab + w.kd + 1)

\* C18: fail-fast validation before conversion.  A band wrapper called with
\* n < 0, kd < 0, a leading dimension below kd+1 or (n > 0) a band buffer
\* shorter than (n-1)*ld+kd+1 fails before any conversion or kernel call and
\* with the caller's buffers as they were; and bandTriToLapacke is only
\* entered with n >= 1, kd >= 0, ld >= kd+1, a source of at least
\* (n-1)*ld+kd+1 elements and a scratch of stride n and length (kd+1)*n, and
\* never runs out of bounds.
C18_AsStated ==
    wrap.pc \notin {"idle", "entry"} =>
        /\ BadBandArgs(wrap)
              => /\ wrap.pc = "panic"
                 /\ wrap.events = <<>>
                 /\ wrap.ab = wrap.ab0
                 /\ wrap.b = wrap.b0
        /\ wrap.events # <<>>
              => /\ wrap.n >= 1 /\ wrap.kd >= 0 /\ wrap.ldab >= wrap.kd + 1
                 /\ SliceLen(wrap.ab0) >= (wrap.n - 1) * wrap.ldab + wrap.kd + 1
                 /\ wrap.ldabConv = wrap.n
                 /\ SliceLen(wrap.abConv) = (wrap.kd + 1) * wrap.n
                 /\ wrap.events[1] = "bandTriToLapacke"

(* ------------------ lapack/netlib pivot index arrays -------------------- *)
\* int32(x): the low Int32Bits bits of x as a signed number.
Int32(x) == ((x + 2^(Int32Bits - 1)) % 2^Int32Bits) - 2^(Int32Bits - 1)

MaxInt32 == 2^(Int32Bits - 1) - 1

\* A mutation of toZeroBased: the kernel's indices stored as they are.
toZeroBasedNoShift(ipiv32) == [i \in DOMAIN ipiv32 |-> ipiv32[i]]

\* for i, v := range ipiv32 { ipiv[i] = int(v) - 1 }
toZeroBased(ipiv32) == [i \in DOMAIN ipiv32 |-> ipiv32[i] - 1]

\* for i, v := range ipiv { v++; if v != int(int32(v)) { panic(...) };
\* ipiv32[i] = int32(v) }
toOneBased(ipiv) ==
    [ipiv32 |-> [i \in DOMAIN ipiv |-> Int32(ipiv[i] + 1)],
     panicked |-> \E i \in DOMAIN ipiv : ipiv[i] + 1 # Int32(ipiv[i] + 1)]

\* One factorization about to be called: Dgetrf or Dgetf2 of an m x n
\* matrix with the caller's ipiv of the required length or one longer.
InitPiv ==
    /\ ConvIdle
    /\ idx = Idle
    /\ wrap = Idle
    /\ conc = Idle
    /\ \E fn \in {"Dgetrf", "Dgetf2"}, m \in 0..PivMaxN, nn \in 0..PivMaxN, extra \in 0..1 :
          piv = [pc |-> "start", fn |-> fn, m |-> m, n |-> nn,
                 ipiv |-> SentinelSlice(min(m, nn) + extra),
                 v |-> <<>>, factored |-> FALSE, tampered |-> FALSE,
                 use |-> "", un |-> 0, nrhs |-> 0, lwork |-> 0, kernel |-> "none", ipiv32 |-> <<>>, err |-> ""]

\* Dgetrf / Dgetf2: quick return, length check, the kernel's one-based
\* pivots v, ipiv filled from them.
PivFactor ==
    /\ piv.pc = "start"
    /\ LET mn == min(piv.m, piv.n) IN
       IF mn = 0
       THEN piv' = [piv EXCEPT !.pc = "factored"]
       ELSE IF SliceLen(piv.ipiv) # mn
       THEN piv' = [piv EXCEPT !.pc = "panic", !.err = "badLenIpiv"]
       ELSE \E v \in [0..(mn - 1) -> 1..max(piv.m, piv.n)] :
               piv' = [piv EXCEPT !.pc = "factored", !.v = v, !.factored = TRUE,
                                  !.ipiv = toZeroBased(v)]
    /\ UNCHANGED <<convVars, wrap, conc, idx>>

\* The caller overwrites one element of ipiv between the two calls.
PivTamper ==
    /\ piv.pc = "factored"
    /\ ~piv.tampered
    /\ \E i \in DOMAIN piv.ipiv, x \in {MaxInt32, 0 - 1} :
          piv' = [piv EXCEPT !.ipiv[i] = x, !.tampered = TRUE]
    /\ UNCHANGED <<convVars, wrap, conc, idx>>

\* Dgetrs(trans, n, nrhs, a, lda, ipiv, b, ldb)
PivDgetrs ==
    /\ piv.pc = "factored"
    /\ \E nn \in 0..PivMaxN, nrhs \in 0..1 :
          LET r == toOneBased(piv.ipiv)
              u == [piv EXCEPT !.use = "Dgetrs", !.un = nn, !.nrhs = nrhs]
          IN piv' = IF nn = 0 \/ nrhs = 0
                    THEN [u EXCEPT !.pc = "return"]
                    ELSE IF SliceLen(piv.ipiv) # nn
                    THEN [u EXCEPT !.pc = "panic", !.err = "badLenIpiv"]
                    ELSE IF r.panicked
                    THEN [u EXCEPT !.pc = "panic", !.err = "ipiv element out of range"]
                    ELSE [u EXCEPT !.pc = "return", !.kernel = "ipiv32", !.ipiv32 = r.ipiv32]
    /\ UNCHANGED <<convVars, wrap, conc, idx>>

\* Dgetri(n, a, lda, ipiv, work, lwork)
PivDgetri ==
    /\ piv.pc = "factored"
    /\ \E nn \in 0..PivMaxN :
       \E lwork \in {0 - 1, max(1, nn)} :
          LET r == toOneBased(piv.ipiv)
              u == [piv EXCEPT !.use = "Dgetri", !.un = nn, !.lwork = lwork]
          IN piv' = IF nn = 0
                    THEN [u EXCEPT !.pc = "return"]
                    ELSE IF lwork = 0 - 1
                    THEN [u EXCEPT !.pc = "return", !.kernel = "nil"]
                    ELSE IF SliceLen(piv.ipiv) # nn
                    THEN [u EXCEPT !.pc = "panic", !.err = "badLenIpiv"]
                    ELSE IF r.panicked
                    THEN [u EXCEPT !.pc = "panic", !.err = "ipiv element out of range"]
                    ELSE [u EXCEPT !.pc = "return", !.kernel = "ipiv32", !.ipiv32 = r.ipiv32]
    /\ UNCHANGED <<convVars, wrap, conc, idx>>

NextPiv == PivFactor \/ PivTamper \/ PivDgetrs \/ PivDgetri

SpecPiv == InitPiv /\ [][NextPiv]_vars

\* C19: pivot index round trip across calls.  After Dgetrf or Dgetf2 whose
\* kernel produced the one-based pivots v, ipiv[i] = v[i]-1 for every i; and
\* a later Dgetrs or Dgetri given that ipiv unchanged never rejects an
\* element, and the int32 array it hands to its kernel (every call on a
\* matrix of that order with nrhs > 0, and not a workspace query) equals v
\* element for element.
C19_PivotRoundTrip ==
    (piv.pc # "idle" /\ piv.factored /\ ~piv.tampered)
        => /\ DOMAIN piv.ipiv = DOMAIN piv.v
           /\ \A i \in DOMAIN piv.v : piv.ipiv[i] = piv.v[i] - 1
           /\ toOneBased(toZeroBased(piv.v)).ipiv32 = piv.v
           /\ piv.err # "ipiv element out of range"
           /\ piv.kernel = "ipiv32" => piv.ipiv32 = piv.v
           /\ ((piv.use = "Dgetrs" /\ piv.nrhs > 0) \/ (piv.use = "Dgetri" /\ piv.lwork > 0))
                 /\ piv.un = SliceLen(piv.ipiv)
                 => piv.pc = "return" /\ piv.kernel = "ipiv32"

C19_Witness ==
    /\ piv.pc = "return"
    /\ piv.factored /\ ~piv.tampered
    /\ piv.use = "Dgetri"
    /\ piv.kernel = "ipiv32"
    /\ SliceLen(piv.v) = 3
    /\ piv.v[0] = 3 /\ piv.v[1] = 2
    /\ piv.ipiv[0] = 2
    /\ piv.ipiv32 = piv.v

(* ---------------- conversions running concurrently ---------------------- *)
\* Two goroutines, each inside one converter call, over slices of one
\* memory.  A slice is a window [base, base+len) of conc.heap; a step is one
\* element copy b[..] = a[..] of one goroutine.
Conversions == {"ToLapacke", "ToGonum", "ToColMajor", "ToRowMajor"}

\* The copies of one call with the strides the tests use: kd+1 for the
\* client and the packed forms, n for the LAPACKE band-triangular form.
ConcCopies(kind, ul, nn, k) ==
    CASE kind = "ToLapacke" -> convDpbToLapackeCopies(ul, nn, k, k + 1, netlibMax(1, nn))
      [] kind = "ToGonum" -> convDpbToGonumCopies(ul, nn, k, netlibMax(1, nn), k + 1)
      [] kind = "ToColMajor" -> DpbToColMajorCopies(ul, nn, k, k + 1, k + 1)
      [] kind = "ToRowMajor" -> DpbToRowMajorCopies(ul, nn, k, k + 1, k + 1)

\* Where the second goroutine's slices lie, the first one's being
\* src = [0, len) and dst = [len, 2*len).
Layouts == {"disjoint", "sharedDst", "chained"}

SrcBase2(layout, len) == IF layout = "chained" THEN len ELSE 2 * len

DstBase2(layout, len) == IF layout = "sharedDst" THEN len ELSE 3 * len

\* A mutation of DstAddr: every call writes through one buffer at address 0.
DstAddrShared(th, off) == off

\* The address of a[off] and of b[off] for the call th.
SrcAddr(th, off) == th.src + off

DstAddr(th, off) == th.dst + off

InitConc ==
    /\ ConvIdle
    /\ idx = Idle
    /\ wrap = Idle
    /\ piv = Idle
    /\ \E nn \in 1..ConcMaxN, k \in 0..ConcMaxKd, layout \in Layouts,
          kind1 \in Conversions, kind2 \in Conversions,
          ul1 \in {"U", "L"}, ul2 \in {"U", "L"} :
          LET len == nn * (k + 1)
              heap == [x \in 0..(4 * len - 1) |-> x + 1]
          IN conc = [pc |-> "run", n |-> nn, kd |-> k, len |-> len, layout |-> layout,
                     heap |-> heap, heap0 |-> heap,
                     th |-> <<[kind |-> kind1, uplo |-> ul1, src |-> 0, dst |-> len,
                               copies |-> ConcCopies(kind1, ul1, nn, k), k |-> 1,
                               reads |-> {}, writes |-> {}],
                              [kind |-> kind2, uplo |-> ul2,
                               src |-> SrcBase2(layout, len), dst |-> DstBase2(layout, len),
                               copies |-> ConcCopies(kind2, ul2, nn, k), k |-> 1,
                               reads |-> {}, writes |-> {}]>>]

\* The state after goroutine t has executed its next copy; an index outside
\* either slice is a panic, which ends the program.
Copied(t) ==
    LET th == conc.th[t]
        c == th.copies[th.k]
    IN IF c.src \notin 0..(conc.len - 1) \/ c.dst \notin 0..(conc.len - 1)
       THEN [conc EXCEPT !.pc = "panic"]
       ELSE [conc EXCEPT
               !.heap[DstAddr(th, c.dst)] = conc.heap[SrcAddr(th, c.src)],
               !.th[t].k = @ + 1,
               !.th[t].reads = @ \cup {SrcAddr(th, c.src)},
               !.th[t].writes = @ \cup {DstAddr(th, c.dst)}]

Thread1Step ==
    /\ conc.pc = "run"
    /\ conc.th[1].k <= Len(conc.th[1].copies)
    /\ conc' = Copied(1)
    /\ UNCHANGED <<convVars, wrap, piv, idx>>

Thread2Step ==
    /\ conc.pc = "run"
    /\ conc.th[2].k <= Len(conc.th[2].copies)
    /\ conc' = Copied(2)
    /\ UNCHANGED <<convVars, wrap, piv, idx>>

NextConc == Thread1Step \/ Thread2Step

SpecConc == InitConc /\ [][NextConc]_vars

\* The slice of length len at base in a memory.
Window(heap, base, len) == [x \in 0..(len - 1) |-> heap[base + x]]

WindowAddrs(base, len) == base..(base + len - 1)

\* The four slices are pairwise disjoint.
DisjointBuffers ==
    LET w == {<<t, side>> : t \in 1..2, side \in {"src", "dst"}}
        base(x) == IF x[2] = "src" THEN conc.th[x[1]].src ELSE conc.th[x[1]].dst
    IN \A x, y \in w :
          x # y => WindowAddrs(base(x), conc.len) \cap WindowAddrs(base(y), conc.len) = {}

\* The destination slice call t alone leaves after its first q copies, run
\* on the memory as it was before either call.
SequentialDst(t, q) ==
    RunCopies(Window(conc.heap0, conc.th[t].src, conc.len),
              Window(conc.heap0, conc.th[t].dst, conc.len),
              SubSeq(conc.th[t].copies, 1, q), 1).dst

\* C20: concurrent use on disjoint buffers.  With pairwise disjoint source
\* and destination slices, under every interleaving of the element copies
\* of the two calls, each destination holds at every moment what its call
\* running alone would have left after as many copies (so its final state
\* is the sequential one), no call panics, and no call reads or writes an
\* address of the other call's slices.
C20_DisjointConcurrent ==
    (conc.pc # "idle" /\ DisjointBuffers)
        => /\ conc.pc = "run"
           /\ \A t \in 1..2 :
                 LET th == conc.th[t]
                     other == conc.th[3 - t]
                 IN /\ Window(conc.heap, th.dst, conc.len) = SequentialDst(t, th.k - 1)
                    /\ Window(conc.heap, th.src, conc.len) = Window(conc.heap0, th.src, conc.len)
                    /\ th.reads \subseteq WindowAddrs(th.src, conc.len)
                    /\ th.writes \subseteq WindowAddrs(th.dst, conc.len)
                    /\ (th.reads \cup th.writes)
                          \cap (WindowAddrs(other.src, conc.len) \cup WindowAddrs(other.dst, conc.len))
                       = {}

C20_Witness ==
    /\ conc.pc = "run"
    /\ DisjointBuffers
    /\ conc.n = 2 /\ conc.kd = 1
    /\ conc.th[1].kind = "ToLapacke" /\ conc.th[2].kind = "ToRowMajor"
    /\ conc.th[1].k = 3 /\ conc.th[2].k = 2
    /\ Len(conc.th[1].copies) = 3
    /\ conc.th[1].writes # {} /\ conc.th[2].writes # {}

\* C21: idempotent per call.  The same conversion called a second time with
\* the same arguments (the source as it is, the destination holding the
\* first call's result) executes the same copies and leaves both buffers,
\* slot for slot, as the first call left them.
C21_IdempotentPerCall ==
    (Len(hist) = 2 /\ hist[1] = hist[2] /\ pc = "ready")
        => /\ a = prevA
           /\ b = prevB
           /\ trace = prevTrace

C21_Witness ==
    /\ hist = <<"ToColMajor", "ToColMajor">> /\ pc = "ready"
    /\ n = 3 /\ kd = 1 /\ uplo = "L" /\ fill = "distinct" /\ ValidStrides
    /\ b # b0 /\ b = prevB
    /\ Len(trace) = 5

(* ------------------------ lapack/netlib Dgeqp3 -------------------------- *)
\* A mutation of badJpvt: the sign of the shifted index is not looked at.
badJpvtNoSign(v, nn) == v # Int32(v) \/ nn < v

\* if v != int(int32(v)) || v < 0 || n < v { panic(badJpvt) }
badJpvt(v, nn) == v # Int32(v) \/ v < 0 \/ nn < v

\* A mutation of jpvtBack: the kernel's indices stored as they are.
jpvtBackNoShift(jpvt32) == [i \in DOMAIN jpvt32 |-> jpvt32[i]]

\* for i, v := range jpvt32 { jpvt[i] = int(v - 1) }
jpvtBack(jpvt32) == [i \in DOMAIN jpvt32 |-> Int32(jpvt32[i] - 1)]

\* Dgeqp3 up to the allocation of jpvt32: a panic message, "return" for the
\* quick return, "query" for the workspace query, "" to go on.
Dgeqp3Entry(q) ==
    LET minmn == netlibMin(q.m, q.n)
        iws == IF minmn = 0 THEN 1 ELSE 3 * q.n + 1
    IN IF q.m < 0 THEN "mLT0"
       ELSE IF q.n < 0 THEN "nLT0"
       ELSE IF q.lda < netlibMax(1, q.n) THEN "badLdA"
       ELSE IF q.lwork < iws /\ q.lwork # 0 - 1 THEN "badLWork"
       ELSE IF q.work < netlibMax(1, q.lwork) THEN "shortWork"
       ELSE IF minmn = 0 THEN "return"
       ELSE IF q.lwork = 0 - 1 THEN "query"
       ELSE IF SliceLen(q.a) < (q.m - 1) * q.lda + q.n THEN "shortA"
       ELSE IF SliceLen(q.jpvt) # q.n THEN "badLenJpvt"
       ELSE IF q.tau < minmn THEN "shortTau"
       ELSE ""

\* The values an element of the caller's jpvt is drawn from: below -1, free
\* (-1), the first and last column, one past the last, and the largest
\* int32.
JpvtValues(nn) == {0 - 2, 0 - 1, 0, nn - 1, nn, MaxInt32}

\* One call of Dgeqp3 about to start.  work and tau are their lengths.
InitQp3 ==
    /\ ConvIdle
    /\ wrap = Idle
    /\ piv = Idle
    /\ conc = Idle
    /\ \E m \in (0 - 1)..IdxMaxN, nn \in (0 - 1)..IdxMaxN :
       \E ld \in Lens(netlibMax(1, nn) - 1, netlibMax(1, nn)),
          lwork \in {0 - 1, 3 * nn, 3 * nn + 1},
          lenJpvt \in Lens(nn - 1, nn + 1),
          lenTau \in Lens(netlibMin(m, nn) - 1, netlibMin(m, nn)) :
       \E lenA \in Lens((m - 1) * ld + nn - 1, (m - 1) * ld + nn),
          lenWork \in Lens(netlibMax(1, lwork) - 1, netlibMax(1, lwork)),
          jpvt \in [0..(lenJpvt - 1) -> JpvtValues(nn)] :
          idx = [fn |-> "Dgeqp3", pc |-> "entry", m |-> m, n |-> nn,
                 a |-> FillA("distinct", lenA), a0 |-> FillA("distinct", lenA),
                 lda |-> ld, jpvt |-> jpvt, jpvt0 |-> jpvt,
                 tau |-> lenTau, work |-> lenWork, lwork |-> lwork,
                 kernel |-> "none", handed |-> <<>>, out |-> <<>>, err |-> ""]

\* The argument checks, the quick return and the choice of the query.
Qp3Entry ==
    /\ idx.pc = "entry"
    /\ idx.fn = "Dgeqp3"
    /\ LET e == Dgeqp3Entry(idx) IN
       idx' = [idx EXCEPT
                 !.pc = IF e = "" THEN "checked"
                        ELSE IF e \in {"return", "query"} THEN e ELSE "panic",
                 !.err = IF e \in {"", "return", "query"} THEN "" ELSE e]
    /\ UNCHANGED <<convVars, wrap, piv, conc>>

\* jpvt32 := make([]int32, n) and the loop that fills it.
Qp3Narrow ==
    /\ idx.pc = "checked"
    /\ idx.fn = "Dgeqp3"
    /\ idx' = IF \E i \in DOMAIN idx.jpvt : badJpvt(idx.jpvt[i] + 1, idx.n)
              THEN [idx EXCEPT !.pc = "panic", !.err = "badJpvt"]
              ELSE [idx EXCEPT !.pc = "narrowed",
                               !.handed = [i \in DOMAIN idx.jpvt |-> Int32(idx.jpvt[i] + 1)]]
    /\ UNCHANGED <<convVars, wrap, piv, conc>>

\* lapacke.Dgeqp3(m, n, a, lda, jpvt32, tau, work, lwork): the kernel
\* overwrites a and leaves a column permutation (one-based) in jpvt32, or
\* leaves either as it was.
Qp3Kernel ==
    /\ idx.pc = "narrowed"
    /\ idx.fn = "Dgeqp3"
    /\ \E newA \in {idx.a, Negate(idx.a)},
          out \in {idx.handed, [i \in DOMAIN idx.handed |-> idx.n - i]} :
          idx' = [idx EXCEPT !.pc = "kernelDone", !.kernel = "jpvt32",
                             !.a = newA, !.out = out]
    /\ UNCHANGED <<convVars, wrap, piv, conc>>

\* lapacke.Dgeqp3(m, n, a, lda, nil, nil, work, -1); return
Qp3Query ==
    /\ idx.pc = "query"
    /\ idx.fn = "Dgeqp3"
    /\ idx' = [idx EXCEPT !.pc = "return", !.kernel = "nil"]
    /\ UNCHANGED <<convVars, wrap, piv, conc>>

\* The loop that writes the kernel's jpvt32 back into jpvt.
Qp3WriteBack ==
    /\ idx.pc = "kernelDone"
    /\ idx.fn = "Dgeqp3"
    /\ idx' = [idx EXCEPT !.pc = "return", !.jpvt = jpvtBack(idx.out)]
    /\ UNCHANGED <<convVars, wrap, piv, conc>>

NextQp3 == Qp3Entry \/ Qp3Narrow \/ Qp3Kernel \/ Qp3Query \/ Qp3WriteBack

SpecQp3 == InitQp3 /\ [][NextQp3]_vars

\* The call of Dgeqp3 has ended.
Qp3Ended == idx.pc # "idle" /\ idx.fn = "Dgeqp3" /\ idx.pc \in {"return", "panic"}

C27_ZeroOneZero ==
    (idx.pc # "idle" /\ idx.fn = "Dgeqp3")
        => /\ idx.kernel = "jpvt32"
                 => /\ DOMAIN idx.handed = DOMAIN idx.jpvt0
                    /\ \A i \in DOMAIN idx.jpvt0 : idx.handed[i] = idx.jpvt0[i] + 1
           /\ (idx.pc = "return" /\ idx.kernel = "jpvt32")
                 => /\ \A i \in DOMAIN idx.out : idx.jpvt[i] = idx.out[i] - 1
                    /\ idx.out = idx.handed => idx.jpvt = idx.jpvt0
           /\ (idx.lwork = 0 - 1 \/ netlibMin(idx.m, idx.n) = 0)
                 => idx.jpvt = idx.jpvt0 /\ idx.kernel # "jpvt32"
           /\ (Qp3Ended /\ Dgeqp3Entry(idx) = ""
               /\ \A i \in DOMAIN idx.jpvt0 : idx.jpvt0[i] \in (0 - 1)..(idx.n - 1))
                 => idx.pc = "return" /\ idx.kernel = "jpvt32"

C27_Witness ==
    /\ Qp3Ended
    /\ idx.pc = "return" /\ idx.kernel = "jpvt32"
    /\ idx.n = 2 /\ idx.m = 2
    /\ idx.jpvt0[0] = 0 - 1 /\ idx.jpvt0[1] = 1
    /\ idx.handed[0] = 0 /\ idx.handed[1] = 2
    /\ idx.out[0] = 2 /\ idx.out[1] = 1
    /\ idx.jpvt[0] = 1 /\ idx.jpvt[1] = 0

\* The pairs <<i, jb>> of the band slots ab[i*ldab + jb] of the triangle the
\* wrapper call selects, and the column j of such a slot.
WrapBandSlots ==
    {e \in (0..(wrap.n - 1)) \X (0..wrap.kd) :
        IF wrap.uplo = "U" THEN e[2] <= wrap.n - 1 - e[1] ELSE e[2] >= wrap.kd - e[1]}

WrapColumn(i, jb) == IF wrap.uplo = "U" THEN i + jb ELSE i - wrap.kd + jb

\* C23: Dpbtrf effect and frame.  After Dpbtrf returns with n >= 1 every
\* band slot ab[i*ldab + jb] of the selected triangle holds what the kernel
\* left at (kd-jb)*n + j of the scratch buffer, every other slot of ab
\* (corner, stride padding) holds its value from before the call, and if the
\* kernel left the scratch buffer as the conversion filled it, ab is
\* unchanged in every slot.
C23_DpbtrfFrame ==
    (wrap.pc = "return" /\ wrap.fn = "Dpbtrf" /\ wrap.n >= 1)
        => /\ wrap.events = <<"bandTriToLapacke", "kernel.call", "kernel.return", "bandTriToGonum">>
           /\ DOMAIN wrap.ab = DOMAIN wrap.ab0
           /\ \A e \in WrapBandSlots :
                 wrap.ab[e[1] * wrap.ldab + e[2]]
                    = wrap.abConv[(wrap.kd - e[2]) * wrap.n + WrapColumn(e[1], e[2])]
           /\ \A o \in DOMAIN wrap.ab :
                 o \notin {e[1] * wrap.ldab + e[2] : e \in WrapBandSlots}
                    => wrap.ab[o] = wrap.ab0[o]
           /\ wrap.abConv = convDpbToLapacke(wrap.uplo, wrap.n, wrap.kd, wrap.ab0, wrap.ldab,
                                             make((wrap.kd + 1) * wrap.n), wrap.n).dst
                 => wrap.ab = wrap.ab0

C23_Witness ==
    /\ wrap.pc = "return" /\ wrap.fn = "Dpbtrf"
    /\ wrap.n = 3 /\ wrap.kd = 1 /\ wrap.uplo = "L" /\ wrap.ldab = 3
    /\ wrap.ab # wrap.ab0
    /\ wrap.ab[0] = wrap.ab0[0] /\ wrap.ab[2] = wrap.ab0[2]
    /\ wrap.ab[1] = wrap.abConv[0] /\ wrap.ab[1] # wrap.ab0[1]

\* C24: one-way band wrappers never touch the caller's matrix.  In Dpbcon,
\* Dpbtrs and Dtbtrs, at every point of the call and on every way out (the
\* quick returns, a panic, the return after the kernel), every slot of the
\* caller's band buffer has its value from before the call, whatever the
\* kernel wrote into the scratch buffer; no conversion back happens.
C24_OneWayUntouched ==
    (wrap.pc # "idle" /\ wrap.fn \in {"Dpbcon", "Dpbtrs", "Dtbtrs"})
        => /\ wrap.ab = wrap.ab0
           /\ \A q \in DOMAIN wrap.events :
                 wrap.events[q] \notin {"bandTriToGonum", "bandTriToGonum.panic"}

C24_Witness ==
    /\ wrap.pc = "return" /\ wrap.fn = "Dtbtrs"
    /\ wrap.n = 3 /\ wrap.kd = 2 /\ wrap.uplo = "U"
    /\ wrap.events = <<"bandTriToLapacke", "kernel.call", "kernel.return">>
    /\ wrap.abConv # convDpbToLapacke(wrap.uplo, wrap.n, wrap.kd, wrap.ab0, wrap.ldab,
                                      make((wrap.kd + 1) * wrap.n), wrap.n).dst
    /\ wrap.ab = wrap.ab0

\* The copy of band element (i, j) in a list of copies.
CopyOf(copies, i, j) == CHOOSE c \in {copies[q] : q \in DOMAIN copies} : c.i = i /\ c.j = j

\* The strides the other library form is given in C25.
OtherStrides == IF family = "bandTri" THEN (kd + 1)..(kd + 1 + MaxExtra)
                ELSE netlibMax(1, n)..(netlibMax(1, n) + MaxExtra)

\* C25: the two library forms are transposes of one band array.  For the
\* same uplo, n, kd and client matrix, bandTriToLapacke with stride L stores
\* band element (i,j) at r*L + j and DpbToColMajor with stride L' stores it
\* at r + j*L', r = kd-(j-i) for upper and i-j for lower, and the two values
\* stored are equal.
C25_Transposes ==
    (hist \in {<<"ToLapacke">>, <<"ToColMajor">>} /\ pc = "ready" /\ ValidStrides)
        => \A ld2 \in OtherStrides :
              LET tri == IF family = "bandTri" THEN [dst |-> b, trace |-> trace, ld |-> ldb]
                         ELSE LET r == convDpbToLapacke(uplo, n, kd, a, lda,
                                                        SentinelSlice((kd + 1) * ld2), ld2)
                              IN [dst |-> r.dst, trace |-> r.trace, ld |-> ld2]
                  col == IF family = "pb" THEN [dst |-> b, trace |-> trace, ld |-> ldb]
                         ELSE LET r == DpbToColMajor(uplo, n, kd, a, lda,
                                                     SentinelSlice(n * ld2), ld2)
                              IN [dst |-> r.dst, trace |-> r.trace, ld |-> ld2]
              IN /\ {<<c.i, c.j>> : c \in {tri.trace[q] : q \in DOMAIN tri.trace}} = Band
                 /\ {<<c.i, c.j>> : c \in {col.trace[q] : q \in DOMAIN col.trace}} = Band
                 /\ \A e \in Band :
                       LET r == BandRow(e[1], e[2]) IN
                       /\ CopyOf(tri.trace, e[1], e[2]).dst = r * tri.ld + e[2]
                       /\ CopyOf(col.trace, e[1], e[2]).dst = r + e[2] * col.ld
                       /\ tri.dst[r * tri.ld + e[2]] = col.dst[r + e[2] * col.ld]
                       /\ tri.dst[r * tri.ld + e[2]] = a[ClientOff(e[1], e[2], lda)]

C25_Witness ==
    /\ hist = <<"ToLapacke">> /\ pc = "ready" /\ ValidStrides
    /\ n = 3 /\ kd = 1 /\ uplo = "U" /\ fill = "distinct" /\ ldb = 4 /\ lda = 2
    /\ b[1] = a[1]
    /\ DpbToColMajor(uplo, n, kd, a, lda, SentinelSlice(n * 3), 3).dst[3] = a[1]

\* The lengths nn-d of the diagonals d = 0..m of an nn x nn matrix, summed.
RECURSIVE DiagonalSum(_, _)
DiagonalSum(nn, m) == IF m < 0 THEN 0 ELSE (nn - m) + DiagonalSum(nn, m - 1)

\* The count C26 states: (m+1)*n - m*(m+1)/2 with m = min(kd, n-1), and 0
\* for n = 0.
CopiesPerCall ==
    IF n = 0 THEN 0
    ELSE (ClippedKd + 1) * n - (ClippedKd * (ClippedKd + 1)) \div 2

\* C26: number of copies per call.  Every completed conversion, of either
\* family, direction and triangle, executes exactly (m+1)*n - m*(m+1)/2
\* element copies, m = min(kd, n-1) (none for n = 0), which is the sum of
\* the lengths n-d of the diagonals d = 0..m; a forward and an inverse
\* conversion of the same arguments execute the same number.
C26_CopiesPerCall ==
    (last # "none" /\ pc = "ready")
        => /\ Len(trace) = CopiesPerCall
           /\ CopiesPerCall = DiagonalSum(n, ClippedKd)
           /\ Len(hist) = 2 => Len(prevTrace) = Len(trace)

C26_Witness ==
    /\ hist = <<"ToGonum", "ToLapacke">> /\ pc = "ready"
    /\ n = 4 /\ kd = 2 /\ uplo = "L"
    /\ Len(trace) = 9 /\ Len(prevTrace) = 9

(* -------------------- lapack/netlib Dgebal, Dgebak ----------------------- *)
\* A mutation of ShiftIndices: the upper loop starts at ihi.
ShiftIndicesFromIhi(nn, ilo, ihi) == {j \in 0..(nn - 1) : j < ilo \/ j >= ihi}

\* The indices visited by for j := 0; j < ilo; j++ and
\* for j := ihi + 1; j < n; j++.
ShiftIndices(nn, ilo, ihi) == (0..(ilo - 1)) \cup ((ihi + 1)..(nn - 1))

\* scale[j]++ (d = 1) or scale[j]-- (d = -1) for the indices js.  The
\* entries shifted hold row indices, which float64 adds to exactly.
Shift(scale, js, d) == [j \in DOMAIN scale |-> IF j \in js THEN scale[j] + d ELSE scale[j]]

BalanceJobs == {"N", "P", "S", "B"}

\* Dgebak up to its first loop: a panic message, "return" for a quick
\* return, "" to go on.
DgebakEntry(g) ==
    IF g.job \notin BalanceJobs THEN "badBalanceJob"
    ELSE IF g.side \notin {"L", "R"} THEN "badEVSide"
    ELSE IF g.n < 0 THEN "nLT0"
    ELSE IF g.ilo < 0 \/ netlibMax(0, g.n - 1) < g.ilo THEN "badIlo"
    ELSE IF g.ihi < netlibMin(g.ilo, g.n - 1) \/ g.n <= g.ihi THEN "badIhi"
    ELSE IF g.m < 0 THEN "mLT0"
    ELSE IF g.n = 0 \/ g.m = 0 THEN "return"
    ELSE IF SliceLen(g.scale) < g.n THEN "shortScale"
    ELSE IF g.job = "N" THEN "return"
    ELSE ""

\* A matrix order, a job and the caller's scale slice (row indices in every
\* entry) before Dgebal or Dgebak is called.
InitBal ==
    /\ ConvIdle
    /\ wrap = Idle
    /\ piv = Idle
    /\ conc = Idle
    /\ \E nn \in (0 - 1)..(IdxMaxN + 1), job \in BalanceJobs \cup {"?"} :
       \E lenScale \in Lens(nn - 1, nn + 1) :
       \E scale \in [0..(lenScale - 1) -> 0..1] :
          idx = [fn |-> "", pc |-> "start", n |-> nn, job |-> job, side |-> "R", m |-> 1,
                 scale |-> scale, scale0 |-> scale, ilo |-> 0, ihi |-> nn - 1,
                 balanced |-> FALSE, balShifted |-> {}, up |-> {}, down |-> {},
                 kernelTouched |-> FALSE, err |-> ""]

\* Dgebal(job, n, a, lda, scale): the kernel leaves one-based ilo, ihi and,
\* outside ilo..ihi, one-based row indices in scale; the wrapper shifts
\* them down.
BalDgebal ==
    /\ idx.pc = "start"
    /\ idx.fn = ""
    /\ IF idx.job \notin BalanceJobs
       THEN idx' = [idx EXCEPT !.fn = "Dgebal", !.pc = "panic", !.err = "badBalanceJob"]
       ELSE IF idx.n < 0
       THEN idx' = [idx EXCEPT !.fn = "Dgebal", !.pc = "panic", !.err = "nLT0"]
       ELSE IF idx.n = 0
       THEN idx' = [idx EXCEPT !.fn = "Dgebal", !.pc = "balanced", !.ilo = 0, !.ihi = idx.n - 1]
       ELSE IF SliceLen(idx.scale) # idx.n
       THEN idx' = [idx EXCEPT !.fn = "Dgebal", !.pc = "panic", !.err = "shortScale"]
       ELSE \E ilo32 \in 1..idx.n :
            \E ihi32 \in ilo32..idx.n :
               LET ilo == ilo32 - 1
                   ihi == ihi32 - 1
                   out == [j \in DOMAIN idx.scale |->
                              IF j < ilo \/ j > ihi THEN idx.scale[j] + 1 ELSE 2]
                   js == ShiftIndices(idx.n, ilo, ihi)
               IN idx' = [idx EXCEPT !.fn = "Dgebal", !.pc = "balanced",
                                     !.ilo = ilo, !.ihi = ihi,
                                     !.scale = Shift(out, js, 0 - 1),
                                     !.scale0 = Shift(out, js, 0 - 1),
                                     !.balanced = TRUE, !.balShifted = js]
    /\ UNCHANGED <<convVars, wrap, piv, conc>>

\* Dgebak(job, side, n, ilo, ihi, scale, m, v, ldv): the argument checks
\* and quick returns, with ilo, ihi as Dgebal returned them or as the
\* caller chose them.
BakEntry ==
    /\ idx.pc \in {"start", "balanced"}
    /\ \E ilo \in (0 - 1)..idx.n, ihi \in (0 - 1)..idx.n, side \in {"L", "R", "?"},
          m \in (0 - 1)..1 :
          /\ idx.pc = "balanced" => ilo = idx.ilo /\ ihi = idx.ihi
          /\ LET g == [idx EXCEPT !.fn = "Dgebak", !.ilo = ilo, !.ihi = ihi,
                                  !.side = side, !.m = m]
                 e == DgebakEntry(g)
             IN idx' = [g EXCEPT !.pc = IF e = "" THEN "checked"
                                        ELSE IF e = "return" THEN "return" ELSE "panic",
                                 !.err = IF e \in {"", "return"} THEN "" ELSE e]
    /\ UNCHANGED <<convVars, wrap, piv, conc>>

\* The two loops before the kernel call: scale[j]++.
BakShiftUp ==
    /\ idx.pc = "checked"
    /\ idx.fn = "Dgebak"
    /\ LET js == ShiftIndices(idx.n, idx.ilo, idx.ihi)
       IN idx' = [idx EXCEPT !.pc = "shifted", !.up = js, !.scale = Shift(idx.scale, js, 1)]
    /\ UNCHANGED <<convVars, wrap, piv, conc>>

\* lapacke.Dgebak(job, side, n, ilo+1, ihi+1, scale, m, v, ldv): the kernel
\* is handed scale and may write it.
BakKernel ==
    /\ idx.pc = "shifted"
    /\ idx.fn = "Dgebak"
    /\ \E touched \in BOOLEAN :
          idx' = [idx EXCEPT !.pc = "kernelDone", !.kernelTouched = touched,
                             !.scale = IF touched THEN Negate(idx.scale) ELSE idx.scale]
    /\ UNCHANGED <<convVars, wrap, piv, conc>>

\* The two loops after the kernel call: scale[j]--; return.
BakShiftDown ==
    /\ idx.pc = "kernelDone"
    /\ idx.fn = "Dgebak"
    /\ LET js == ShiftIndices(idx.n, idx.ilo, idx.ihi)
       IN idx' = [idx EXCEPT !.pc = "return", !.down = js,
                             !.scale = Shift(idx.scale, js, 0 - 1)]
    /\ UNCHANGED <<convVars, wrap, piv, conc>>

NextBal == BalDgebal \/ BakEntry \/ BakShiftUp \/ BakKernel \/ BakShiftDown

SpecBal == InitBal /\ [][NextBal]_vars

\* C28: Dgebak restores the caller's scale.  Dgebak increments exactly the
\* entries scale[j] with j < ilo or j > ihi before the kernel call and
\* decrements exactly those after it, never writing scale[ilo..ihi]; a call
\* that ends before the kernel leaves scale unwritten; if the kernel does
\* not modify scale, scale after Dgebak equals scale before it in every
\* entry; and for the (ilo, ihi) Dgebal returned, the entries Dgebak shifts
\* are the entries Dgebal shifted down.
C28_DgebakRestoresScale ==
    (idx.pc # "idle" /\ idx.fn = "Dgebak")
        => LET outside == {j \in 0..(idx.n - 1) : j < idx.ilo \/ j > idx.ihi}
           IN /\ idx.pc \in {"shifted", "kernelDone", "return"} /\ idx.err = "" /\ idx.up # {}
                    => idx.up = outside
              /\ idx.pc = "shifted"
                    => /\ idx.up = outside
                       /\ \A j \in DOMAIN idx.scale :
                             idx.scale[j] = idx.scale0[j] + (IF j \in outside THEN 1 ELSE 0)
              /\ (idx.pc = "return" /\ idx.up # {} ) => idx.down = idx.up
              /\ (idx.up \cup idx.down) \cap (idx.ilo..idx.ihi) = {}
              /\ (idx.pc \in {"checked", "panic"} \/ (idx.pc = "return" /\ ~idx.kernelTouched))
                    => idx.scale = idx.scale0
              /\ (idx.balanced /\ idx.pc \in {"shifted", "kernelDone", "return"} /\ idx.job # "N"
                  /\ idx.m > 0)
                    => idx.up = idx.balShifted

C28_Witness ==
    /\ idx.pc = "return" /\ idx.fn = "Dgebak"
    /\ idx.balanced /\ ~idx.kernelTouched
    /\ idx.n = 3 /\ idx.ilo = 1 /\ idx.ihi = 1
    /\ idx.up = {0, 2} /\ idx.down = {0, 2} /\ idx.balShifted = {0, 2}
    /\ idx.scale = idx.scale0

(* ---------------- lapack/netlib Dlapmr, Dlapmt, Dlaswp ------------------- *)
\* A mutation of narrow: the range check left out.
narrowUnchecked(k) == [k32 |-> [i \in DOMAIN k |-> Int32(k[i] + 1)], panicked |-> FALSE]

\* for i, v := range k { v++; if v != int(int32(v)) { panic(...) };
\* k32[i] = int32(v) }: the int32 slice, and whether the loop panics.
narrow(k) ==
    [k32 |-> [i \in DOMAIN k |-> Int32(k[i] + 1)],
     panicked |-> \E i \in DOMAIN k : k[i] + 1 # Int32(k[i] + 1)]

\* Dlapmr (dim = m) and Dlapmt (dim = n) up to the allocation of k32.
DlapmEntry(g) ==
    LET dim == IF g.fn = "Dlapmr" THEN g.m ELSE g.n IN
    IF g.m < 0 THEN "mLT0"
    ELSE IF g.n < 0 THEN "nLT0"
    ELSE IF g.ld < netlibMax(1, g.n) THEN "badLdX"
    ELSE IF g.m = 0 \/ g.n = 0 THEN "return"
    ELSE IF g.lenA < (g.m - 1) * g.ld + g.n THEN "shortX"
    ELSE IF SliceLen(g.k) # dim THEN "badLenK"
    ELSE IF dim = 1 THEN "return"
    ELSE ""

\* Dlaswp up to the allocation of ipiv32.
DlaswpEntry(g) ==
    IF g.n < 0 THEN "nLT0"
    ELSE IF g.k2 < 0 THEN "badK2"
    ELSE IF g.k1 < 0 \/ g.k2 < g.k1 THEN "badK1"
    ELSE IF g.ld < netlibMax(1, g.n) THEN "badLdA"
    ELSE IF g.lenA < (g.k2 - 1) * g.ld + g.n THEN "shortA"
    ELSE IF SliceLen(g.k) # g.k2 + 1 THEN "badLenIpiv"
    ELSE IF g.incX # 1 /\ g.incX # 0 - 1 THEN "absIncNotOne"
    ELSE IF g.n = 0 THEN "return"
    ELSE ""

\* The values an element of the caller's index slice is drawn from: small
\* indices, the largest index whose successor is an int32, the first whose
\* successor is not, and one whose successor is 2 modulo 2^Int32Bits.
IndexValues == {0, 1, MaxInt32 - 1, MaxInt32, 2^Int32Bits + 1}

\* The index slices of a length: every content for the length the wrapper
\* accepts, one content for a length it rejects.
IndexSlices(len, accepted) ==
    IF accepted THEN [0..(len - 1) -> IndexValues] ELSE {[x \in 0..(len - 1) |-> 0]}

\* One call of Dlapmr, Dlapmt or Dlaswp about to start.  The matrix (x or
\* a) is its length lenA and stride ld; k is the index slice (k or ipiv).
InitPerm ==
    /\ ConvIdle
    /\ wrap = Idle
    /\ piv = Idle
    /\ conc = Idle
    /\ \E fn \in {"Dlapmr", "Dlapmt", "Dlaswp"}, m \in (0 - 1)..IdxMaxN, nn \in (0 - 1)..IdxMaxN :
       \E k1 \in IF fn = "Dlaswp" THEN (0 - 1)..(IdxMaxN - 1) ELSE {0},
          k2 \in IF fn = "Dlaswp" THEN (0 - 1)..(IdxMaxN - 1) ELSE {0},
          incX \in IF fn = "Dlaswp" THEN {0 - 1, 1, 2} ELSE {1},
          ld \in Lens(netlibMax(1, nn) - 1, netlibMax(1, nn)) :
       LET rows == IF fn = "Dlaswp" THEN k2 + 1 ELSE m
           dim == IF fn = "Dlaswp" THEN k2 + 1 ELSE IF fn = "Dlapmr" THEN m ELSE nn
       IN \E lenA \in Lens((rows - 2) * ld + nn - 1, (rows - 2) * ld + nn)
                         \cup Lens((rows - 1) * ld + nn - 1, (rows - 1) * ld + nn),
             lenK \in Lens(dim - 1, dim + 1) :
          \E k \in IndexSlices(lenK, lenK = dim) :
             /\ fn = "Dlaswp" => m = 0
             /\ idx = [fn |-> fn, pc |-> "entry", m |-> m, n |-> nn, ld |-> ld, lenA |-> lenA,
                       k |-> k, k1 |-> k1, k2 |-> k2, incX |-> incX,
                       kernel |-> "none", handed |-> <<>>, hk1 |-> 0, hk2 |-> 0, err |-> ""]

\* The argument checks and quick returns of the wrapper called.
PermEntry ==
    /\ idx.pc = "entry"
    /\ idx.fn \in {"Dlapmr", "Dlapmt", "Dlaswp"}
    /\ LET e == IF idx.fn = "Dlaswp" THEN DlaswpEntry(idx) ELSE DlapmEntry(idx) IN
       idx' = [idx EXCEPT
                 !.pc = IF e = "" THEN "checked"
                        ELSE IF e = "return" THEN "return" ELSE "panic",
                 !.err = IF e \in {"", "return"} THEN "" ELSE e]
    /\ UNCHANGED <<convVars, wrap, piv, conc>>

\* k32 := make([]int32, m) (ipiv32 in Dlaswp) and the loop that fills it.
PermNarrow ==
    /\ idx.pc = "checked"
    /\ idx.fn \in {"Dlapmr", "Dlapmt", "Dlaswp"}
    /\ LET r == narrow(idx.k) IN
       idx' = IF r.panicked
              THEN [idx EXCEPT !.pc = "panic", !.err = "element out of range"]
              ELSE [idx EXCEPT !.pc = "narrowed", !.handed = r.k32]
    /\ UNCHANGED <<convVars, wrap, piv, conc>>

\* lapacke.Dlapmr(forwrd, m, n, x, ldx, k32), lapacke.Dlapmt(...),
\* lapacke.Dlaswp(n, a, lda, k1+1, k2+1, ipiv32, incX)
PermKernel ==
    /\ idx.pc = "narrowed"
    /\ idx.fn \in {"Dlapmr", "Dlapmt", "Dlaswp"}
    /\ idx' = [idx EXCEPT !.pc = "return", !.kernel = "k32",
                          !.hk1 = idx.k1 + 1, !.hk2 = idx.k2 + 1]
    /\ UNCHANGED <<convVars, wrap, piv, conc>>

NextPerm == PermEntry \/ PermNarrow \/ PermKernel

SpecPerm == InitPerm /\ [][NextPerm]_vars

\* Every wrapper that narrows caller indices to int32: Dgetrs and Dgetri
\* (after a factorization), Dgeqp3, Dlapmr, Dlapmt and Dlaswp.
InitNarrow == InitPiv \/ InitQp3 \/ InitPerm

NextNarrow == NextPiv \/ NextQp3 \/ NextPerm

SpecNarrow == InitNarrow /\ [][NextNarrow]_vars

\* v+1 is a value of int32.
Representable(v) == 0 - 2^(Int32Bits - 1) <= v + 1 /\ v + 1 <= 2^(Int32Bits - 1) - 1

\* The call of Dlapmr, Dlapmt or Dlaswp has ended.
PermEnded ==
    idx.pc # "idle" /\ idx.fn \in {"Dlapmr", "Dlapmt", "Dlaswp"} /\ idx.pc \in {"return", "panic"}

\* C29: no silent truncation when narrowing indices.  In Dlapmr, Dlapmt,
\* Dlaswp, Dgetri, Dgetrs and Dgeqp3 an index array handed to the kernel
\* holds, entry for entry, exactly v+1 for the caller's zero-based v; a
\* call given some v with v+1 outside int32 never hands its kernel an index
\* array, and if it gets as far as narrowing the indices it panics there,
\* before the kernel call.
C29_NoSilentTruncation ==
    /\ piv.pc # "idle"
          => /\ piv.kernel = "ipiv32"
                   => /\ DOMAIN piv.ipiv32 = DOMAIN piv.ipiv
                      /\ \A i \in DOMAIN piv.ipiv : piv.ipiv32[i] = piv.ipiv[i] + 1
             /\ (piv.use # "" /\ \E i \in DOMAIN piv.ipiv : ~Representable(piv.ipiv[i]))
                   => /\ piv.kernel # "ipiv32"
                      /\ (piv.un = SliceLen(piv.ipiv) /\ (piv.nrhs > 0 \/ piv.lwork > 0))
                            => piv.pc = "panic" /\ piv.err = "ipiv element out of range"
    /\ (idx.pc # "idle" /\ idx.fn = "Dgeqp3")
          => /\ idx.kernel = "jpvt32"
                   => /\ DOMAIN idx.handed = DOMAIN idx.jpvt0
                      /\ \A i \in DOMAIN idx.jpvt0 : idx.handed[i] = idx.jpvt0[i] + 1
             /\ (Qp3Ended /\ \E i \in DOMAIN idx.jpvt0 : ~Representable(idx.jpvt0[i]))
                   => /\ idx.kernel # "jpvt32"
                      /\ Dgeqp3Entry(idx) = "" => idx.pc = "panic" /\ idx.err = "badJpvt"
    /\ (idx.pc # "idle" /\ idx.fn \in {"Dlapmr", "Dlapmt", "Dlaswp"})
          => /\ idx.kernel = "k32"
                   => /\ DOMAIN idx.handed = DOMAIN idx.k
                      /\ \A i \in DOMAIN idx.k : idx.handed[i] = idx.k[i] + 1
             /\ (PermEnded /\ \E i \in DOMAIN idx.k : ~Representable(idx.k[i]))
                   => /\ idx.kernel = "none"
                      /\ (IF idx.fn = "Dlaswp" THEN DlaswpEntry(idx) ELSE DlapmEntry(idx)) = ""
                            => idx.pc = "panic" /\ idx.err = "element out of range"

C29_Witness ==
    /\ PermEnded
    /\ idx.fn = "Dlapmt" /\ idx.n = 2 /\ idx.m = 1
    /\ idx.k[0] = 1 /\ idx.k[1] = 2^Int32Bits + 1
    /\ Int32(idx.k[1] + 1) = 2
    /\ idx.pc = "panic" /\ idx.err = "element out of range"
    /\ idx.kernel = "none"

\* C30: Dlaswp buffer validation.  With 0 <= k1 <= k2, n >= 1 and
\* lda >= max(1,n), Dlaswp calls the kernel, with the one-based bounds k1+1
\* and k2+1, only if len(a) >= k2*lda + n; a shorter a makes it panic with
\* shortA before the kernel is called; and len(ipiv) # k2+1 makes it panic.
C30_AsStated ==
    (PermEnded /\ idx.fn = "Dlaswp" /\ 0 <= idx.k1 /\ idx.k1 <= idx.k2 /\ idx.n >= 1
     /\ idx.ld >= netlibMax(1, idx.n))
        => /\ idx.kernel = "k32"
                 => /\ idx.lenA >= idx.k2 * idx.ld + idx.n
                    /\ idx.hk1 = idx.k1 + 1 /\ idx.hk2 = idx.k2 + 1
           /\ idx.lenA < idx.k2 * idx.ld + idx.n
                 => idx.pc = "panic" /\ idx.err = "shortA" /\ idx.kernel = "none"
           /\ SliceLen(idx.k) # idx.k2 + 1 => idx.pc = "panic"

====
